---- MODULE Spec2Model ----
(***************************************************************************)
(* A model of autoruby: the dictionary index (parse.rs, dictionary.rs),    *)
(* the segmenter, ranker and span renderer (annotate.rs), the selection    *)
(* policies (select.rs), the command line (main.rs) and the build script   *)
(* of the relational dictionary (build.rs).                                *)
(*                                                                         *)
(* Strings are sequences of one-character strings.  The specifications of  *)
(* the module: SpecDict (dictionary build and lookups), SpecAnnotate       *)
(* (annotate and annotate_with_first), SpecSegment (annotate alone, with   *)
(* fairness), SpecSelect (FirstOccurrence under concurrent callers),       *)
(* SpecRender (Annotation::apply, once per format), SpecRank               *)
(* (annotate_internal_token on one token), SpecQuery (the prefix query),   *)
(* SpecCli (the Annotate command of the command line) and SpecBuild (the   *)
(* build script, cut short and run again, and dictionary::build on the     *)
(* same lines).                                                            *)
(***************************************************************************)
EXTENDS Integers, Sequences, FiniteSets, TLC

VARIABLES
    \* ---- dictionary::build and Dictionary lookups
    lines,          \* the raw lines of the input reader
    frequency,      \* the records frequency_entries() yields
    lineIdx,        \* number of lines the fold has consumed
    tree,           \* the fold's accumulator (BTreeMap<Index, TextEntry>)
    result,         \* what build returned: Pending, Ok(dictionary) or Err(line)
    lastWord,       \* argument and result of the last lookup_word
    lastPrefix,     \* argument and result of the last lookup_prefixed
    \* ---- select::filter::FirstOccurrence shared by concurrent callers
    selector,       \* the inner selector: "All" or "UncommonOnly"
    seen,           \* per allocation, the HashSet behind Arc<RwLock<..>>
    lockHolder,     \* the thread holding the write guard, or NoThread
    tpc,            \* each thread's position in select
    tfrag,          \* each thread's fragment argument
    tret,           \* each thread's return value
    callLog,        \* the completed calls, in the order they returned
    delegated,      \* the surface texts the inner selector was called for
    \* ---- annotate::Annotator: annotate and annotate_with_first
    db,             \* the rows of text_entry in id order, each with its ruby_entry rows
    avoid_common,   \* Annotator::avoid_common
    format,         \* the Format given to annotate_with_first
    input_text,     \* the input text
    tokens,         \* what tokenize_with_details returns for the input
    apc,            \* position in annotate_with_first
    token_buffer_start,
    token_buffer_end,
    buffer_possibilities,
    internal_tokens,
    covered,        \* per internal token, the token range <<from, to>> it was made of
    fragments,      \* the fragments annotate returned
    rendered,       \* per fragment rendered so far, its piece of the output
    \* ---- Annotation::apply on one text, once per format
    r_text,         \* the reference text, as characters
    r_spans,        \* the spans of the annotation, in the order given
    r_folded,       \* number of spans the fold has consumed
    r_acc,          \* per format, the fold's accumulator (valid_next_index, s)
    r_emitted,      \* per format, the slices of the text pushed so far
    rpc,            \* position in apply
    \* ---- Annotator::annotate_internal_token on one token
    rank_db,        \* the rows of text_entry in id order
    rank_avoid,     \* Annotator::avoid_common
    rank_token,     \* the InternalToken
    rank_fragment,  \* the fragment returned, or NoFragment
    \* ---- Annotator::query_text_entries_starting_with on one prefix
    q_db,           \* the rows of text_entry in id order
    q_prefix,       \* the prefix argument
    q_result,       \* the texts returned
    qpc,            \* position of the query
    \* ---- the Annotate command of the command line
    db_exists,      \* config.db_path.exists()
    auto_download,  \* AnnotateArgs::auto_download
    include_common, \* AnnotateArgs::include_common
    mode,           \* AnnotateArgs::mode
    stdin_text,     \* the text on the input
    input_read,     \* the text read by input(), if any
    output_written, \* whether write_all was called on the output
    stderr_log,     \* the messages written to the standard error
    cpc,            \* position in main
    \* ---- the build script of the relational dictionary (build.rs)
    b_committed,    \* the tables of the database file as last committed
    b_db,           \* the tables as the open connection sees them
    b_i,            \* index of the line the loop is at
    b_id,           \* db.last_insert_rowid() of the entry just inserted
    b_rubies,       \* the spans of the entry still to be inserted
    b_runs,         \* number of runs that were cut short
    bpc             \* position in the build script

dictVars == <<lines, frequency, lineIdx, tree, result, lastWord, lastPrefix>>

selVars == <<selector, seen, lockHolder, tpc, tfrag, tret, callLog, delegated>>

annVars == <<db, avoid_common, format, input_text, tokens, apc, token_buffer_start,
             token_buffer_end, buffer_possibilities, internal_tokens, covered,
             fragments, rendered>>

renVars == <<r_text, r_spans, r_folded, r_acc, r_emitted, rpc>>

rankVars == <<rank_db, rank_avoid, rank_token, rank_fragment>>

qryVars == <<q_db, q_prefix, q_result, qpc>>

cliVars == <<db_exists, auto_download, include_common, mode, stdin_text,
             input_read, output_written, stderr_log, cpc>>

bldVars == <<b_committed, b_db, b_i, b_id, b_rubies, b_runs, bpc>>

vars == <<dictVars, selVars, annVars, renVars, rankVars, qryVars, cliVars,
          bldVars>>

(***************************************************************************)
(* Strings                                                                 *)
(***************************************************************************)

\* The byte value of a character; Rust orders String bytewise.
Code(c) ==
    CASE c = " " -> 32
      [] c = "%" -> 37
      [] c = "-" -> 45
      [] c = "0" -> 48
      [] c = "1" -> 49
      [] c = "2" -> 50
      [] c = "3" -> 51
      [] c = ":" -> 58
      [] c = ";" -> 59
      [] c = "A" -> 65
      [] c = "X" -> 88
      [] c = "Y" -> 89
      [] c = "\\" -> 92
      [] c = "_" -> 95
      [] c = "a" -> 97
      [] c = "b" -> 98
      [] c = "c" -> 99
      [] c = "x" -> 120
      [] c = "y" -> 121
      [] c = "z" -> 122
      [] c = "|" -> 124

\* str::starts_with
StartsWith(s, p) ==
    /\ Len(p) <= Len(s)
    /\ \A i \in 1..Len(p) : s[i] = p[i]

\* Ord for String: lexicographic on bytes, a proper prefix is smaller.
StrLess(a, b) ==
    \E i \in 1..Len(b) :
        /\ \A j \in 1..(i - 1) : j <= Len(a) /\ a[j] = b[j]
        /\ (i > Len(a) \/ Code(a[i]) < Code(b[i]))

\* The suffix of s from position i (1-based) on.
Drop(s, i) == SubSeq(s, i, Len(s))

(***************************************************************************)
(* parse.rs: the nom parsers.  A parser result is                          *)
(* [ok |-> BOOLEAN, rest |-> remaining input, val |-> parsed value].       *)
(***************************************************************************)

\* F applied to the value of v, v evaluated once.
Bind(v, F(_)) == CHOOSE r \in {F(x) : x \in {v}} : TRUE

Fail(input) == [ok |-> FALSE, rest |-> input, val |-> <<>>]
Done(rest, val) == [ok |-> TRUE, rest |-> rest, val |-> val]

IsDigit(c) == c \in {"0", "1", "2", "3"}

DigitVal(c) == Code(c) - 48

\* The length of the longest all-digit prefix of s.
RECURSIVE DigitPrefixLen(_)
DigitPrefixLen(s) ==
    IF s = <<>> \/ ~IsDigit(s[1]) THEN 0 ELSE 1 + DigitPrefixLen(Tail(s))

\* nom digit1: one or more ASCII digits.
digit1(input) ==
    Bind(DigitPrefixLen(input), LAMBDA n :
        IF n = 0 THEN Fail(input)
        ELSE Done(Drop(input, n + 1), SubSeq(input, 1, n)))

\* nom char(c)
char(c, input) ==
    IF input # <<>> /\ input[1] = c THEN Done(Tail(input), c) ELSE Fail(input)

\* Index of the first occurrence of c in s, 0 when there is none.
FindChar(c, s) ==
    IF \E i \in 1..Len(s) : s[i] = c
    THEN CHOOSE i \in 1..Len(s) : s[i] = c /\ \A j \in 1..(i - 1) : s[j] # c
    ELSE 0

\* nom take_until("|"): everything before the first '|' (possibly nothing);
\* an error when the input holds no '|'.
take_until(c, input) ==
    Bind(FindChar(c, input), LAMBDA k :
        IF k = 0 THEN Fail(input)
        ELSE Done(Drop(input, k), SubSeq(input, 1, k - 1)))

\* The decimal value of a digit string.
RECURSIVE DecimalValue(_)
DecimalValue(ds) ==
    IF ds = <<>> THEN 0
    ELSE DecimalValue(SubSeq(ds, 1, Len(ds) - 1)) * 10 + DigitVal(ds[Len(ds)])

U8Max == 255

\* str::parse::<u8>() on a digit string
ParseU8Ok(ds) == DecimalValue(ds) <= U8Max

\* take_range: digit1, then optionally '-' digit1 (opt(preceded(..)));
\* map_res fails when a number does not fit u8.
take_range(input) ==
    Bind(digit1(input), LAMBDA s :
        IF ~s.ok THEN Fail(input)
        ELSE Bind(char("-", s.rest), LAMBDA dash :
             Bind(IF dash.ok THEN digit1(dash.rest) ELSE Fail(s.rest), LAMBDA e :
                 IF ~ParseU8Ok(s.val) THEN Fail(input)
                 ELSE IF ~e.ok THEN Done(s.rest, <<DecimalValue(s.val),
                                                   DecimalValue(s.val)>>)
                 ELSE IF ~ParseU8Ok(e.val) THEN Fail(input)
                 ELSE Done(e.rest, <<DecimalValue(s.val), DecimalValue(e.val)>>))))

\* Length of the longest prefix of s holding neither '\n' nor ';' (a line
\* holds no '\n').
RECURSIVE TillLen(_)
TillLen(s) ==
    IF s = <<>> \/ s[1] = ";" THEN 0 ELSE 1 + TillLen(Tail(s))

\* take_reading_span: range ':' text, the text non-empty (take_till1).
take_reading_span(input) ==
    Bind(take_range(input), LAMBDA r :
        IF ~r.ok THEN Fail(input)
        ELSE Bind(char(":", r.rest), LAMBDA c :
            IF ~c.ok THEN Fail(input)
            ELSE Bind(TillLen(c.rest), LAMBDA n :
                IF n = 0 THEN Fail(input)
                ELSE Done(Drop(c.rest, n + 1),
                          [start_index |-> r.val[1],
                           end_index |-> r.val[2],
                           text |-> SubSeq(c.rest, 1, n)]))))

\* The loop of separated_list0 after the first element: a separator and an
\* element, or stop where the input stands, leaving the rest unconsumed.
RECURSIVE SeparatedMore(_, _)
SeparatedMore(input, acc) ==
    Bind(char(";", input), LAMBDA sep :
        IF ~sep.ok THEN Done(input, acc)
        ELSE Bind(take_reading_span(sep.rest), LAMBDA el :
            IF ~el.ok THEN Done(input, acc)
            ELSE Bind(Append(acc, el.val), LAMBDA more :
                     SeparatedMore(el.rest, more))))

\* take_reading_spans: separated_list0(char(';'), take_reading_span); an
\* element that fails to parse ends the list, it is not an error.
take_reading_spans(input) ==
    Bind(take_reading_span(input), LAMBDA el :
        IF ~el.ok THEN Done(input, <<>>)
        ELSE SeparatedMore(el.rest, <<el.val>>))

\* dictionary_line: text '|' reading '|' spans
dictionary_line(input) ==
    Bind(take_until("|", input), LAMBDA t :
        IF ~t.ok THEN Fail(input)
        \* char('|') takes the '|' take_until stopped at
        ELSE Bind(take_until("|", Tail(t.rest)), LAMBDA r :
            IF ~r.ok THEN Fail(input)
            ELSE Bind(take_reading_spans(Tail(r.rest)), LAMBDA sp :
                Done(sp.rest, [text |-> t.val,
                               reading |-> r.val,
                               reading_spans |-> sp.val]))))

(***************************************************************************)
(* dictionary.rs: Index, TextEntry, Dictionary, build                      *)
(***************************************************************************)

\* impl From<T> for Index: the key of a bare word has the empty reading.
IndexFrom(s) == [text |-> s, reading |-> <<>>]

IndexLessReadingMajor(a, b) ==
    \/ StrLess(a.reading, b.reading)
    \/ (a.reading = b.reading /\ StrLess(a.text, b.text))

\* #[derive(PartialOrd, Ord)] on Index { text, reading }: text-major.
IndexLess(a, b) ==
    \/ StrLess(a.text, b.text)
    \/ (a.text = b.text /\ StrLess(a.reading, b.reading))

\* The keys of a BTreeMap in iteration order.
RECURSIVE OrderedKeys(_)
OrderedKeys(keys) ==
    IF keys = {} THEN <<>>
    ELSE LET m == CHOOSE k \in keys : \A o \in keys \ {k} : IndexLess(k, o)
         IN  <<m>> \o OrderedKeys(keys \ {m})

\* BTreeMap::range(from..): the entries with key >= from, in key order.
RangeFrom(dict, from) ==
    Bind(SelectSeq(OrderedKeys(DOMAIN dict), LAMBDA k : ~IndexLess(k, from)),
         LAMBDA ks : [i \in 1..Len(ks) |-> dict[ks[i]]])

\* Iterator::map_while with the predicate of lookup_word.
RECURSIVE WhileTextIs(_, _)
WhileTextIs(entries, word) ==
    IF entries = <<>> \/ entries[1].text # word THEN <<>>
    ELSE <<entries[1]>> \o WhileTextIs(Tail(entries), word)

\* Iterator::map_while with the predicate of lookup_prefixed.
RECURSIVE WhileTextStartsWith(_, _)
WhileTextStartsWith(entries, prefix) ==
    IF entries = <<>> \/ ~StartsWith(entries[1].text, prefix) THEN <<>>
    ELSE <<entries[1]>> \o WhileTextStartsWith(Tail(entries), prefix)

\* Dictionary::lookup_word
lookup_word(dict, word) == WhileTextIs(RangeFrom(dict, IndexFrom(word)), word)

lookup_prefixed_strict(dict, prefix) ==
    LET IsLonger(e) == Len(e.text) > Len(prefix)
    IN  WhileTextStartsWith(
            SelectSeq(RangeFrom(dict, IndexFrom(prefix)), IsLonger), prefix)

lookup_prefixed_as_word(dict, prefix) ==
    WhileTextIs(RangeFrom(dict, IndexFrom(prefix)), prefix)

\* Dictionary::lookup_prefixed
lookup_prefixed(dict, prefix) ==
    WhileTextStartsWith(RangeFrom(dict, IndexFrom(prefix)), prefix)

EmptyTree == [k \in {} |-> {}]

\* An insert that, for a key the map holds, keeps the old value and adds
\* the spans of the new one to it.
MapInsertMerging(map, key, value) ==
    [k \in (DOMAIN map) \cup {key} |->
        IF k # key THEN map[k]
        ELSE IF key \in DOMAIN map
        THEN [map[k] EXCEPT !.reading_spans = @ \o value.reading_spans]
        ELSE value]

\* BTreeMap::insert: a new key is added, an existing key's value replaced.
MapInsert(map, key, value) ==
    [k \in (DOMAIN map) \cup {key} |-> IF k = key THEN value ELSE map[k]]

\* The TextEntry the fold of build makes of a parsed line.
NewTextEntry(entry) ==
    [text |-> entry.text,
     text_is_common |-> FALSE,
     reading |-> entry.reading,
     reading_is_common |-> FALSE,
     reading_spans |-> entry.reading_spans]

\* The for_each over frequency_entries(): each record sets the flags of the
\* entry with its (text, reading), if the tree holds one.
RECURSIVE ApplyFrequency(_, _)
ApplyFrequency(map, freqs) ==
    IF freqs = <<>> THEN map
    ELSE LET f == freqs[1]
             key == [text |-> f.kanji_element, reading |-> f.reading_element]
             next == IF key \in DOMAIN map
                     THEN [map EXCEPT ![key].reading_is_common = f.reading_common,
                                      ![key].text_is_common = f.kanji_common]
                     ELSE map
         IN  ApplyFrequency(next, Tail(freqs))

Pending == [tag |-> "Pending", dict |-> EmptyTree, line |-> <<>>]
Ok(dict) == [tag |-> "Ok", dict |-> dict, line |-> <<>>]
\* BuildError::Parse(line.to_string())
ParseErr(line) == [tag |-> "Err", dict |-> EmptyTree, line |-> line]

NoLookup == [asked |-> FALSE, arg |-> <<>>, found |-> <<>>]

(***************************************************************************)
(* Inputs of the dictionary specification                                  *)
(***************************************************************************)

MaxLines == 2

RawLines ==
    { <<"a", "|", "x", "|", "0", ":", "x">>,
      <<"a", "|", "y", "|", "0", ":", "y">>,
      <<"a", "b", "|", "x", "y", "|", "0", ":", "x", ";", "1", ":", "y">>,
      <<"b", "a", "|", "x", "|", "0", "-", "1", ":", "x">>,
      <<"a", "|", "x", "|", "0", "-", "1", ":", "y">>,
      <<"a", "b">>,
      <<"a", "|", "x">>,
      <<"a", "|", "x", "|", "3", "0", "0", ":", "x">>,
      <<"b", "|", "y", "|", "0", ":", "y", ";", "z", "z">> }

RECURSIVE SeqsUpTo(_, _)
SeqsUpTo(S, n) ==
    IF n = 0 THEN {<<>>}
    ELSE LET shorter == SeqsUpTo(S, n - 1)
         IN  shorter \cup {Append(s, x) : s \in shorter, x \in S}

Frequencies ==
    { <<>>,
      <<[kanji_element |-> <<"a">>, kanji_common |-> TRUE,
         reading_element |-> <<"x">>, reading_common |-> FALSE]>>,
      <<[kanji_element |-> <<"a">>, kanji_common |-> TRUE,
         reading_element |-> <<"x">>, reading_common |-> TRUE],
        [kanji_element |-> <<"b">>, kanji_common |-> FALSE,
         reading_element |-> <<"y">>, reading_common |-> TRUE]>> }

QueryWords == { <<>>, <<"a">>, <<"a", "b">>, <<"b">> }

(***************************************************************************)
(* dictionary::build, one line of the fold at a time, and the lookups on   *)
(* the dictionary it returns                                               *)
(***************************************************************************)

NoThread == "none"

\* Option::None and Option::Some(entry) of a selection.
NoEntry == [text |-> <<>>, text_is_common |-> FALSE, reading |-> <<>>,
            reading_is_common |-> FALSE, reading_spans |-> <<>>]
None == [some |-> FALSE, entry |-> NoEntry]
Some(e) == [some |-> TRUE, entry |-> e]

Threads == {"t1", "t2"}

\* A clone with a HashSet of its own.
OwnSet(t) == t

\* #[derive(Clone)] on FirstOccurrence clones the Arc: the selector of every
\* thread points to the one HashSet.
SeenOf(t) == "arc"

\* Arc::default(): the empty set.
NoneSeen == [a \in {SeenOf(t) : t \in Threads} |-> {}]

NoFragment == [text |-> <<>>, annotations |-> <<>>]

\* No dictionary is being built.
DictIdle ==
    /\ lines = <<>>
    /\ frequency = <<>>
    /\ lineIdx = 0
    /\ tree = EmptyTree
    /\ result = Pending
    /\ lastWord = NoLookup
    /\ lastPrefix = NoLookup

\* No selector is in use.
SelectIdle ==
    /\ selector = "All"
    /\ seen = NoneSeen
    /\ lockHolder = NoThread
    /\ tpc = [t \in Threads |-> "idle"]
    /\ tfrag = [t \in Threads |-> NoFragment]
    /\ tret = [t \in Threads |-> None]
    /\ callLog = <<>>
    /\ delegated = <<>>

\* No text is being annotated.
AnnotateIdle ==
    /\ db = <<>>
    /\ avoid_common = FALSE
    /\ format = "markdown"
    /\ input_text = <<>>
    /\ tokens = <<>>
    /\ apc = "idle"
    /\ token_buffer_start = 0
    /\ token_buffer_end = 0
    /\ buffer_possibilities = <<>>
    /\ internal_tokens = <<>>
    /\ covered = <<>>
    /\ fragments = <<>>
    /\ rendered = <<>>

\* No annotation is being applied.
RenderIdle ==
    /\ r_text = <<>>
    /\ r_spans = <<>>
    /\ r_folded = 0
    /\ r_acc = <<>>
    /\ r_emitted = <<>>
    /\ rpc = "idle"

\* No token is being annotated on its own.
RankIdle ==
    /\ rank_db = <<>>
    /\ rank_avoid = FALSE
    /\ rank_token = [original_text |-> <<>>, lookup_text |-> <<>>,
                     reading_hint |-> [present |-> FALSE, value |-> <<>>]]
    /\ rank_fragment = NoFragment

\* No prefix query is running.
QueryIdle ==
    /\ q_db = <<>>
    /\ q_prefix = <<>>
    /\ q_result = <<>>
    /\ qpc = "idle"

\* No command is running.
CliIdle ==
    /\ db_exists = FALSE
    /\ auto_download = FALSE
    /\ include_common = FALSE
    /\ mode = "markdown"
    /\ stdin_text = <<>>
    /\ input_read = [read |-> FALSE, text |-> <<>>]
    /\ output_written = FALSE
    /\ stderr_log = <<>>
    /\ cpc = "idle"

\* The tables text_entry and ruby_entry, each in rowid order.
EmptyStore == [text_entry |-> <<>>, ruby_entry |-> <<>>]

\* No build script is running.
BuildIdle ==
    /\ b_committed = EmptyStore
    /\ b_db = EmptyStore
    /\ b_i = 0
    /\ b_id = 0
    /\ b_rubies = <<>>
    /\ b_runs = 0
    /\ bpc = "idle"

notDict == <<selVars, annVars, renVars, rankVars, qryVars, cliVars, bldVars>>

DictInit ==
    /\ lines \in SeqsUpTo(RawLines, MaxLines)
    /\ frequency \in Frequencies
    /\ lineIdx = 0
    /\ tree = EmptyTree
    /\ result = Pending
    /\ lastWord = NoLookup
    /\ lastPrefix = NoLookup
    /\ SelectIdle
    /\ AnnotateIdle
    /\ RenderIdle /\ RankIdle /\ QueryIdle /\ CliIdle /\ BuildIdle

\* One step of try_fold on a line that parses: insert its entry.
BuildLine ==
    /\ result.tag = "Pending"
    /\ lineIdx < Len(lines)
    /\ \E p \in {dictionary_line(lines[lineIdx + 1])} :
           /\ p.ok
           /\ tree' = MapInsert(tree,
                                [text |-> p.val.text, reading |-> p.val.reading],
                                NewTextEntry(p.val))
    /\ lineIdx' = lineIdx + 1
    /\ UNCHANGED <<lines, frequency, result, lastWord, lastPrefix, notDict>>

\* One step of try_fold on a line that does not parse: `?` returns the
\* error and the accumulator is dropped.
BuildLineError ==
    /\ result.tag = "Pending"
    /\ lineIdx < Len(lines)
    /\ LET line == lines[lineIdx + 1]
       IN  /\ ~dictionary_line(line).ok
           /\ result' = ParseErr(line)
    /\ tree' = EmptyTree
    /\ lineIdx' = lineIdx + 1
    /\ UNCHANGED <<lines, frequency, lastWord, lastPrefix, notDict>>

\* The fold ended: join the frequency records and return the dictionary.
BuildFinish ==
    /\ result.tag = "Pending"
    /\ lineIdx = Len(lines)
    /\ tree' = ApplyFrequency(tree, frequency)
    /\ result' = Ok(tree')
    /\ UNCHANGED <<lines, frequency, lineIdx, lastWord, lastPrefix, notDict>>

LookupWord(word) ==
    /\ result.tag = "Ok"
    /\ lastWord' = [asked |-> TRUE, arg |-> word,
                    found |-> lookup_word(result.dict, word)]
    /\ UNCHANGED <<lines, frequency, lineIdx, tree, result, lastPrefix, notDict>>

LookupPrefixed(prefix) ==
    /\ result.tag = "Ok"
    /\ lastPrefix' = [asked |-> TRUE, arg |-> prefix,
                      found |-> lookup_prefixed(result.dict, prefix)]
    /\ UNCHANGED <<lines, frequency, lineIdx, tree, result, lastWord, notDict>>

DictNext ==
    \/ BuildLine
    \/ BuildLineError
    \/ BuildFinish
    \/ \E w \in QueryWords : LookupWord(w)
    \/ \E p \in QueryWords : LookupPrefixed(p)

SpecDict == DictInit /\ [][DictNext]_vars

Range(s) == {s[i] : i \in 1..Len(s)}

\* The entries of a built dictionary, as a set.
Entries(dict) == {dict[k] : k \in DOMAIN dict}

(***************************************************************************)
(* The raw dictionary line format: text|reading|span-list, the span-list   *)
(* `;`-separated entries start[-end]:readingSubstring, indices of the      *)
(* index type.                                                             *)
(***************************************************************************)

RECURSIVE SplitOn(_, _)
SplitOn(s, c) ==
    Bind(FindChar(c, s), LAMBDA k :
        IF k = 0 THEN <<s>>
        ELSE <<SubSeq(s, 1, k - 1)>> \o SplitOn(Drop(s, k + 1), c))

WellFormedIndex(ds) ==
    /\ ds # <<>>
    /\ \A i \in 1..Len(ds) : IsDigit(ds[i])
    /\ DecimalValue(ds) <= U8Max

WellFormedSpan(item) ==
    Bind(FindChar(":", item), LAMBDA k :
        /\ k > 1
        /\ k < Len(item)
        /\ Bind(SplitOn(SubSeq(item, 1, k - 1), "-"), LAMBDA idx :
               /\ Len(idx) \in {1, 2}
               /\ \A i \in 1..Len(idx) : WellFormedIndex(idx[i])))

WellFormedLine(line) ==
    Bind(SplitOn(line, "|"), LAMBDA f :
        /\ Len(f) = 3
        /\ \/ f[3] = <<>>
           \/ \A item \in Range(SplitOn(f[3], ";")) : WellFormedSpan(item))

(***************************************************************************)
(* Claims on the dictionary index                                          *)
(***************************************************************************)

\* The entries of a dictionary in key order.
InKeyOrder(dict) ==
    Bind(OrderedKeys(DOMAIN dict), LAMBDA ks : [i \in 1..Len(ks) |-> dict[ks[i]]])

\* C6: lookup_word(word) returns every entry whose text equals word, whatever
\* its reading, and no other entry; it is the filter of the whole ordered map
\* by text = word, and empty when no entry has that text.
C6_LookupWordIsExactFilter ==
    lastWord.asked =>
        /\ Range(lastWord.found) =
               {e \in Entries(result.dict) : e.text = lastWord.arg}
        /\ lastWord.found =
               SelectSeq(InKeyOrder(result.dict), LAMBDA e : e.text = lastWord.arg)

\* lookup_word answered with two readings of one text.
C6_Witness ==
    /\ lastWord.asked
    /\ Len(lastWord.found) = 2
    /\ lastWord.found[1].reading # lastWord.found[2].reading

\* C7: lookup_prefixed(prefix) returns exactly the entries whose text starts
\* with prefix, entries whose text equals prefix included, each once.
C7_LookupPrefixedIsExact ==
    lastPrefix.asked =>
        /\ Range(lastPrefix.found) =
               {e \in Entries(result.dict) : StartsWith(e.text, lastPrefix.arg)}
        /\ Len(lastPrefix.found) = Cardinality(Range(lastPrefix.found))

\* lookup_prefixed answered a non-empty prefix with an entry whose text is
\* the prefix and an entry whose text is longer.
C7_Witness ==
    /\ lastPrefix.asked
    /\ lastPrefix.arg # <<>>
    /\ \E e \in Range(lastPrefix.found) : e.text = lastPrefix.arg
    /\ \E e \in Range(lastPrefix.found) : Len(e.text) > Len(lastPrefix.arg)

\* C8: for the same string p, every entry lookup_word(p) returned is among
\* the entries lookup_prefixed(p) returned.
C8_PrefixedIsSupersetOfExact ==
    (lastWord.asked /\ lastPrefix.asked /\ lastWord.arg = lastPrefix.arg) =>
        Range(lastWord.found) \subseteq Range(lastPrefix.found)

\* Both lookups answered for one string, the exact one with an entry and the
\* prefixed one with more.
C8_Witness ==
    /\ lastWord.asked
    /\ lastPrefix.asked
    /\ lastWord.arg = lastPrefix.arg
    /\ lastWord.found # <<>>
    /\ Len(lastPrefix.found) > Len(lastWord.found)

\* C9: when some raw line does not conform to text|reading|span-list, build
\* returns a parse error carrying a non-conforming line verbatim, and no
\* dictionary.
C9_MalformedLineAbortsBuild ==
    (result.tag # "Pending" /\ \E i \in 1..Len(lines) : ~WellFormedLine(lines[i])) =>
        /\ result.tag = "Err"
        /\ result.line \in {lines[i] : i \in 1..Len(lines)}
        /\ ~WellFormedLine(result.line)
        /\ result.dict = EmptyTree

(***************************************************************************)
(* select.rs: the selection heuristics and the FirstOccurrence filter      *)
(***************************************************************************)

SelectAllButCommon(fragment) ==
    IF /\ fragment.annotations # <<>>
       /\ ~fragment.annotations[1].text_is_common
    THEN [some |-> TRUE, entry |-> fragment.annotations[1]]
    ELSE [some |-> FALSE, entry |-> NoEntry]

\* heuristic::All::select: fragment.annotations.get(0).copied()
SelectAll(fragment) ==
    IF fragment.annotations # <<>> THEN Some(fragment.annotations[1]) ELSE None

SelectAnyUncommon(fragment) ==
    IF \E k \in 1..Len(fragment.annotations) :
          /\ ~fragment.annotations[k].text_is_common
          /\ ~fragment.annotations[k].reading_is_common
    THEN Some(fragment.annotations[
             CHOOSE k \in 1..Len(fragment.annotations) :
                /\ ~fragment.annotations[k].text_is_common
                /\ ~fragment.annotations[k].reading_is_common
                /\ \A l \in 1..(k - 1) :
                      \/ fragment.annotations[l].text_is_common
                      \/ fragment.annotations[l].reading_is_common])
    ELSE None

\* heuristic::UncommonOnly::select
SelectUncommonOnly(fragment) ==
    IF /\ fragment.annotations # <<>>
       /\ ~fragment.annotations[1].text_is_common
       /\ ~fragment.annotations[1].reading_is_common
    THEN Some(fragment.annotations[1])
    ELSE None

\* self.selector.select(fragment), the selector a heuristic
InnerSelect(sel, fragment) ==
    IF sel = "All" THEN SelectAll(fragment) ELSE SelectUncommonOnly(fragment)

TryWriteIgnoringHolder(holder) == TRUE

\* RwLock::write() returns once no other guard is held.
WriteLockFree(holder) == holder = NoThread

InsertAlwaysNew(set, text) == TRUE

\* HashSet::insert returns true iff the value was not present; &str keys
\* compare by content.
InsertIsNew(set, text) == text \notin set

MaxCalls == 3

Entry(text, reading, tc, rc) ==
    [text |-> text, text_is_common |-> tc, reading |-> reading,
     reading_is_common |-> rc,
     reading_spans |-> <<[start_index |-> 0, end_index |-> 0, text |-> reading]>>]

\* Fragments the callers pass: the same surface text with different
\* candidates, a surface text differing only in case, the same candidate
\* (lemma "a") under another surface text, a fragment with no candidate, and
\* a fragment whose first candidate has a common reading and whose second
\* candidate is uncommon.
SelectFragments ==
    { [text |-> <<"a">>, annotations |-> <<Entry(<<"a">>, <<"x">>, FALSE, FALSE)>>],
      [text |-> <<"a">>, annotations |-> <<Entry(<<"a">>, <<"y">>, TRUE, FALSE),
                                           Entry(<<"a">>, <<"x">>, FALSE, FALSE)>>],
      [text |-> <<"A">>, annotations |-> <<Entry(<<"a">>, <<"x">>, FALSE, FALSE)>>],
      [text |-> <<"b">>, annotations |-> <<>>],
      [text |-> <<"c">>, annotations |-> <<Entry(<<"c">>, <<"x">>, FALSE, TRUE),
                                           Entry(<<"c">>, <<"y">>, FALSE, FALSE)>>] }

notSelect == <<dictVars, annVars, renVars, rankVars, qryVars, cliVars, bldVars>>

SelectInit ==
    /\ selector \in {"All", "UncommonOnly"}
    /\ seen = NoneSeen
    /\ lockHolder = NoThread
    /\ tpc = [t \in Threads |-> "idle"]
    /\ tfrag = [t \in Threads |-> NoFragment]
    /\ tret = [t \in Threads |-> None]
    /\ callLog = <<>>
    /\ delegated = <<>>
    /\ DictIdle
    /\ AnnotateIdle
    /\ RenderIdle /\ RankIdle /\ QueryIdle /\ CliIdle /\ BuildIdle

\* The calls begun so far, returned or not.
CallsBegun == Len(callLog) + Cardinality({t \in Threads : tpc[t] # "idle"})

\* A thread calls select(fragment) on its clone of the selector.
Call(t, fragment) ==
    /\ tpc[t] = "idle"
    /\ CallsBegun < MaxCalls
    /\ tpc' = [tpc EXCEPT ![t] = "write"]
    /\ tfrag' = [tfrag EXCEPT ![t] = fragment]
    /\ UNCHANGED <<selector, seen, lockHolder, tret, callLog, delegated, notSelect>>

\* let mut set = self.seen.write().unwrap();
Acquire(t) ==
    /\ tpc[t] = "write"
    /\ WriteLockFree(lockHolder)
    /\ lockHolder' = t
    /\ tpc' = [tpc EXCEPT ![t] = "insert"]
    /\ UNCHANGED <<selector, seen, tfrag, tret, callLog, delegated, notSelect>>

\* An insert that records the text only when the inner selector selects.
InsertIfSelected(t) ==
    /\ tpc[t] = "insert"
    /\ seen' = IF InnerSelect(selector, tfrag[t]).some
               THEN [seen EXCEPT ![SeenOf(t)] = @ \cup {tfrag[t].text}]
               ELSE seen
    /\ tpc' = [tpc EXCEPT ![t] =
                  IF InsertIsNew(seen[SeenOf(t)], tfrag[t].text)
                  THEN "delegate" ELSE "none"]
    /\ UNCHANGED <<selector, lockHolder, tfrag, tret, callLog, delegated, notSelect>>

\* if (*set).insert(&fragment.text)
Insert(t) ==
    /\ tpc[t] = "insert"
    /\ seen' = [seen EXCEPT ![SeenOf(t)] = @ \cup {tfrag[t].text}]
    /\ tpc' = [tpc EXCEPT ![t] =
                  IF InsertIsNew(seen[SeenOf(t)], tfrag[t].text)
                  THEN "delegate" ELSE "none"]
    /\ UNCHANGED <<selector, lockHolder, tfrag, tret, callLog, delegated, notSelect>>

\* self.selector.select(fragment)
Delegate(t) ==
    /\ tpc[t] = "delegate"
    /\ tret' = [tret EXCEPT ![t] = InnerSelect(selector, tfrag[t])]
    /\ delegated' = Append(delegated, tfrag[t].text)
    /\ tpc' = [tpc EXCEPT ![t] = "return"]
    /\ UNCHANGED <<selector, seen, lockHolder, tfrag, callLog, notSelect>>

\* else { None }
ReturnNone(t) ==
    /\ tpc[t] = "none"
    /\ tret' = [tret EXCEPT ![t] = None]
    /\ tpc' = [tpc EXCEPT ![t] = "return"]
    /\ UNCHANGED <<selector, seen, lockHolder, tfrag, callLog, delegated, notSelect>>

\* The function returns: the guard is dropped and the caller has the value.
Return(t) ==
    /\ tpc[t] = "return"
    /\ lockHolder' = IF lockHolder = t THEN NoThread ELSE lockHolder
    /\ callLog' = Append(callLog, [thread |-> t, fragment |-> tfrag[t], ret |-> tret[t]])
    /\ tpc' = [tpc EXCEPT ![t] = "idle"]
    /\ UNCHANGED <<selector, seen, tfrag, tret, delegated, notSelect>>

SelectNext ==
    \/ \E t \in Threads, f \in SelectFragments : Call(t, f)
    \/ \E t \in Threads : Acquire(t)
    \/ \E t \in Threads : Insert(t)
    \/ \E t \in Threads : Delegate(t)
    \/ \E t \in Threads : ReturnNone(t)
    \/ \E t \in Threads : Return(t)

SpecSelect == SelectInit /\ [][SelectNext]_vars

(***************************************************************************)
(* Claims on FirstOccurrence                                               *)
(***************************************************************************)

\* C4: the first call for a surface text returns what the inner selector
\* returns for that fragment; every later call with the identical surface
\* text returns none, whatever the inner selector would return.
C4_FirstOccurrenceOnly ==
    \A i \in 1..Len(callLog) :
        IF \E j \in 1..(i - 1) : callLog[j].fragment.text = callLog[i].fragment.text
        THEN callLog[i].ret = None
        ELSE callLog[i].ret = InnerSelect(selector, callLog[i].fragment)

\* A later call with a seen surface text returned none although the inner
\* selector would have chosen a candidate, after a first call that was given
\* the inner selector's choice; a text differing only in case was not
\* suppressed.
C4_Witness ==
    \E i, j, k \in 1..Len(callLog) :
        /\ i < j
        /\ callLog[i].fragment.text = callLog[j].fragment.text
        /\ callLog[i].ret.some
        /\ callLog[j].ret = None
        /\ InnerSelect(selector, callLog[j].fragment).some
        /\ callLog[k].fragment.text = <<"A">>
        /\ callLog[k].ret.some

\* The threads between acquiring the write guard and dropping it.
InCriticalSection ==
    {t \in Threads : tpc[t] \in {"insert", "delegate", "none", "return"}}

\* C5: the check-and-insert and the delegated selection run in one critical
\* section: at most one thread is between acquiring the guard and returning,
\* that thread holds the guard, and for each surface text the inner selector
\* is called at most once.
C5_OneCriticalSection ==
    /\ Cardinality(InCriticalSection) <= 1
    /\ \A t \in InCriticalSection : lockHolder = t
    /\ \A i, j \in 1..Len(delegated) : delegated[i] = delegated[j] => i = j

\* One thread delegates to the inner selector while another, called with the
\* same surface text, waits for the guard.
C5_Witness ==
    \E t, u \in Threads :
        /\ t # u
        /\ tpc[t] = "delegate"
        /\ tpc[u] = "write"
        /\ tfrag[t].text = tfrag[u].text

(***************************************************************************)
(* annotate.rs: the relational lookups                                     *)
(***************************************************************************)

\* str::replace(c, r): every occurrence of the character c replaced by r.
RECURSIVE Replace(_, _, _)
Replace(s, c, r) ==
    IF s = <<>> THEN <<>>
    ELSE (IF s[1] = c THEN r ELSE <<s[1]>>) \o Replace(Tail(s), c, r)

\* escape_sql_like: the backslash first, then '%', then '_'.
escape_sql_like(s) ==
    Bind(Replace(s, "\\", <<"\\", "\\">>), LAMBDA s1 :
        Bind(Replace(s1, "%", <<"\\", "%">>), LAMBDA s2 :
            Replace(s2, "_", <<"\\", "_">>)))

\* SQLite's LIKE compares ASCII letters without regard to case.
AsciiLower(c) == IF c = "A" THEN "a" ELSE c

\* text LIKE pattern ESCAPE '\': '%' matches any run of characters, '_' any
\* one character, and a character after the escape matches itself.
RECURSIVE Like(_, _)
Like(pattern, t) ==
    IF pattern = <<>> THEN t = <<>>
    ELSE IF pattern[1] = "\\"
    THEN /\ Len(pattern) >= 2
         /\ t # <<>>
         /\ AsciiLower(pattern[2]) = AsciiLower(t[1])
         /\ Like(Drop(pattern, 3), Tail(t))
    ELSE IF pattern[1] = "%"
    THEN \E k \in 0..Len(t) : Like(Tail(pattern), Drop(t, k + 1))
    ELSE IF pattern[1] = "_"
    THEN t # <<>> /\ Like(Tail(pattern), Tail(t))
    ELSE /\ t # <<>>
         /\ AsciiLower(pattern[1]) = AsciiLower(t[1])
         /\ Like(Tail(pattern), Tail(t))

\* Annotator::query_text_entries_starting_with:
\* select text from text_entry where text like ?1 || '%' escape '\'
query_text_entries_starting_with(rows, prefix) ==
    Bind(escape_sql_like(prefix) \o <<"%">>, LAMBDA pat :
        Bind(SelectSeq(rows, LAMBDA r : Like(pat, r.text)), LAMBDA hit :
            [i \in 1..Len(hit) |-> hit[i].text]))

\* order by end_index asc, over the ruby_entry rows of one text_entry.
RECURSIVE SortByEnd(_)
SortByEnd(spans) ==
    IF spans = <<>> THEN <<>>
    ELSE Bind(CHOOSE i \in 1..Len(spans) :
                  \A j \in 1..Len(spans) :
                      \/ spans[i].end_index < spans[j].end_index
                      \/ (spans[i].end_index = spans[j].end_index /\ i <= j),
              LAMBDA i : <<spans[i]>> \o
                  SortByEnd(SubSeq(spans, 1, i - 1) \o SubSeq(spans, i + 1, Len(spans))))

\* Annotator::find_annotations_for_word: the join of text_entry and
\* ruby_entry where text = word, grouped by text_entry_id in id order (an
\* entry with no ruby_entry row has no row in the join).
find_annotations_for_word(rows, word) ==
    Bind(SelectSeq(rows, LAMBDA r : r.text = word /\ r.spans # <<>>), LAMBDA hit :
        [i \in 1..Len(hit) |->
            [reading |-> hit[i].reading, spans |-> SortByEnd(hit[i].spans)]])

\* Annotator::is_kanji_common: select text_common from text_entry where
\* text = ?1, the first row; false when there is no row.
is_kanji_common(rows, word) ==
    Bind(SelectSeq(rows, LAMBDA r : r.text = word), LAMBDA hit :
        IF hit = <<>> THEN FALSE ELSE hit[1].text_common)

(***************************************************************************)
(* annotate.rs: InternalToken                                              *)
(***************************************************************************)

NoHint == [present |-> FALSE, value |-> <<>>]
Hint(reading) == [present |-> TRUE, value |-> reading]

\* wana_kana to_hiragana on a katakana reading; "KA" and "MI" stand for two
\* katakana, "ka" and "mi" for the hiragana of the same sounds.
to_hiragana(s) ==
    [i \in 1..Len(s) |->
        IF s[i] = "KA" THEN "ka" ELSE IF s[i] = "MI" THEN "mi" ELSE s[i]]

\* impl From<Cow<str>> / From<String> for InternalToken
FromText(t) == [original_text |-> t, lookup_text |-> t, reading_hint |-> NoHint]

DetailFields == 9

\* A conversion that keeps the surface text as lookup text.
TryFromTokenSurface(token) ==
    IF ~token.details.present THEN [ok |-> FALSE, val |-> FromText(<<>>)]
    ELSE IF Len(token.details.fields) = DetailFields
    THEN [ok |-> TRUE,
          val |-> [original_text |-> token.text,
                   lookup_text |-> token.text,
                   reading_hint |-> Hint(to_hiragana(token.details.fields[8]))]]
    ELSE [ok |-> FALSE, val |-> FromText(<<>>)]

\* impl TryFrom<&lindera::Token> for InternalToken
TryFromToken(token) ==
    IF ~token.details.present THEN [ok |-> FALSE, val |-> FromText(<<>>)]
    ELSE IF Len(token.details.fields) = DetailFields
    THEN [ok |-> TRUE,
          val |-> [original_text |-> token.text,
                   lookup_text |-> token.details.fields[7],
                   reading_hint |-> Hint(to_hiragana(token.details.fields[8]))]]
    ELSE [ok |-> FALSE, val |-> FromText(<<>>)]

\* t.try_into().unwrap_or_default(): a failed conversion is not replaced by
\* the token's text.
SingleTokenNoFallback(token) ==
    Bind(TryFromToken(token), LAMBDA r : r.val)

\* t.try_into().unwrap_or_else(|_| t.text.clone().into())
SingleToken(token) ==
    Bind(TryFromToken(token), LAMBDA r : IF r.ok THEN r.val ELSE FromText(token.text))

\* tokens[from..to].iter().map(|t| t.text.as_ref()).collect::<String>(),
\* from and to 0-based, to exclusive.
RECURSIVE ConcatTexts(_, _, _)
ConcatTexts(toks, from, to) ==
    IF from >= to THEN <<>>
    ELSE toks[from + 1].text \o ConcatTexts(toks, from + 1, to)

MergedTokenShort(toks, from, to) == FromText(ConcatTexts(toks, from, to - 1))

\* The InternalToken of a run of two or more tokens: substring.into()
MergedToken(toks, from, to) == FromText(ConcatTexts(toks, from, to))

\* possibilities_remain: some possibility starts with the window's text.
possibilities_remain(toks, poss, from, to) ==
    Bind(ConcatTexts(toks, from, to), LAMBDA current_substring :
        \E i \in 1..Len(poss) : StartsWith(poss[i], current_substring))

LongestPossibilityEndNoMerge(toks, poss, from, to) == from + 1

\* The inner while loop: shrink the end until the window's text is one of
\* the possibilities, or the window is empty.
RECURSIVE LongestPossibilityEnd(_, _, _, _)
LongestPossibilityEnd(toks, poss, from, to) ==
    IF to > from /\ ConcatTexts(toks, from, to) \notin Range(poss)
    THEN LongestPossibilityEnd(toks, poss, from, to - 1)
    ELSE to

\* The partition of the candidates by reading == reading_hint, the matches
\* first, each part in its order.
PartitionByHint(all, hint) ==
    SelectSeq(all, LAMBDA v : v.reading = hint)
        \o SelectSeq(all, LAMBDA v : v.reading # hint)

\* Annotator::annotate_internal_token
annotate_internal_token(rows, avoid, token) ==
    IF avoid /\ is_kanji_common(rows, token.lookup_text)
    THEN [text |-> token.lookup_text, annotations |-> <<>>]
    ELSE Bind(find_annotations_for_word(rows, token.lookup_text), LAMBDA all :
            [text |-> token.original_text,
             annotations |-> IF token.reading_hint.present
                             THEN PartitionByHint(all, token.reading_hint.value)
                             ELSE all])

(***************************************************************************)
(* format.rs and Annotation::apply                                         *)
(***************************************************************************)

\* format!("[{base}]{{{text}}}")
markdown(base, t) == <<"[">> \o base \o <<"]", "{">> \o t \o <<"}">>

html_swapped(base, t) ==
    <<"<", "r", "u", "b", "y", ">">> \o t
        \o <<"<", "r", "p", ">", "(", "<", "/", "r", "p", ">",
             "<", "r", "t", ">">> \o base
        \o <<"<", "/", "r", "t", ">", "<", "r", "p", ">", ")",
             "<", "/", "r", "p", ">", "<", "/", "r", "u", "b", "y", ">">>

\* format!("<ruby>{base}<rp>(</rp><rt>{text}</rt><rp>)</rp></ruby>")
html(base, t) ==
    <<"<", "r", "u", "b", "y", ">">> \o base
        \o <<"<", "r", "p", ">", "(", "<", "/", "r", "p", ">",
             "<", "r", "t", ">">> \o t
        \o <<"<", "/", "r", "t", ">", "<", "r", "p", ">", ")",
             "<", "/", "r", "p", ">", "<", "/", "r", "u", "b", "y", ">">>

\* format!("\\ruby{{{base}}}{{{text}}}")
latex(base, t) ==
    <<"\\", "r", "u", "b", "y", "{">> \o base \o <<"}", "{">> \o t \o <<"}">>

Formats == {"markdown", "html", "latex"}

Format(f, base, t) ==
    CASE f = "markdown" -> markdown(base, t)
      [] f = "html" -> html(base, t)
      [] f = "latex" -> latex(base, t)

\* The accumulator of the fold in apply; panic marks a slice out of range.
FoldStart == [panic |-> FALSE, valid_next_index |-> 0, s |-> <<>>]

\* The closure of the fold in Annotation::apply on one span.  chars is the
\* text as characters; a slice whose bounds leave the text panics.
ApplyStep(chars, acc, span, f) ==
    IF acc.panic THEN acc
    ELSE IF span.start_index >= acc.valid_next_index
    THEN IF \/ span.start_index > Len(chars)
            \/ span.end_index + 1 > Len(chars)
            \/ span.start_index > span.end_index + 1
         THEN [acc EXCEPT !.panic = TRUE]
         ELSE [panic |-> FALSE,
               valid_next_index |-> span.end_index + 1,
               s |-> acc.s
                     \o SubSeq(chars, acc.valid_next_index + 1, span.start_index)
                     \o Format(f, SubSeq(chars, span.start_index + 1,
                                         span.end_index + 1), span.text)]
    ELSE acc

RECURSIVE ApplyFold(_, _, _, _)
ApplyFold(chars, acc, spans, f) ==
    IF spans = <<>> THEN acc
    ELSE Bind(ApplyStep(chars, acc, spans[1], f), LAMBDA next :
            ApplyFold(chars, next, Tail(spans), f))

\* Annotation::apply: the fold over the spans, then the tail of the text.
Apply(annotation, chars, f) ==
    Bind(ApplyFold(chars, FoldStart, annotation.spans, f), LAMBDA last :
        IF last.panic THEN last
        ELSE [last EXCEPT !.s = last.s \o Drop(chars, last.valid_next_index + 1)])

(***************************************************************************)
(* Inputs of the annotate specification.  "k1", "k2", "k3" stand for three *)
(* kanji.                                                                  *)
(***************************************************************************)

MaxTokens == 3

Filler == <<"*">>

\* The IPADIC detail record: nine fields, the dictionary form seventh and
\* the katakana reading eighth.
Details(lemma, reading) ==
    [present |-> TRUE,
     fields |-> <<Filler, Filler, Filler, Filler, Filler, Filler,
                  lemma, reading, reading>>]

NoDetails == [present |-> FALSE, fields |-> <<>>]

\* The detail record of a word unknown to the tokenizer.
UnknownDetails == [present |-> TRUE, fields |-> <<<<"U", "N", "K">>>>]

\* A token whose lemma is its surface text, a token with a detail record of
\* another shape, a token whose lemma is longer than its surface text, and
\* a whitespace token without details.
TokenKinds ==
    { [text |-> <<"k1">>, details |-> Details(<<"k1">>, <<"KA">>)],
      [text |-> <<"k2">>, details |-> UnknownDetails],
      [text |-> <<"k3">>, details |-> Details(<<"k3", "k2">>, <<"MI", "KA">>)],
      [text |-> <<" ">>, details |-> NoDetails] }

Span(from, to, rt) == [start_index |-> from, end_index |-> to, text |-> rt]

Row(t, reading, common, spans) ==
    [text |-> t, reading |-> reading, text_common |-> common, spans |-> spans]

\* The rows a database may hold, in id order.  The build stores the spans
\* of a line as parsed, so a row may carry a span that leaves its own text
\* (the row of "k2") and spans out of order (the row of "k1k2").
AllRows ==
    << Row(<<"k1">>, <<"mi">>, TRUE, <<Span(0, 0, <<"mi">>)>>),
       Row(<<"k1">>, <<"ka">>, FALSE, <<Span(0, 0, <<"ka">>)>>),
       Row(<<"k2">>, <<"mi">>, FALSE, <<Span(1, 1, <<"mi">>)>>),
       Row(<<"k1", "k2">>, <<"ka", "mi">>, FALSE,
           <<Span(1, 1, <<"mi">>), Span(0, 0, <<"ka">>)>>),
       Row(<<"k3", "k2">>, <<"mi", "ka">>, TRUE,
           <<Span(0, 0, <<"mi">>), Span(1, 1, <<"ka">>)>>),
       Row(<<"k1", "k2", "k3">>, <<"ka", "mi", "ka">>, FALSE,
           <<Span(0, 1, <<"ka", "mi">>), Span(2, 2, <<"ka">>)>>) >>

Databases == {SelectSeq(AllRows, LAMBDA r : r \in S) : S \in SUBSET Range(AllRows)}

\* str::trim().is_empty()
IsBlank(s) == \A i \in 1..Len(s) : s[i] = " "

(***************************************************************************)
(* Annotator::annotate and Annotator::annotate_with_first                  *)
(***************************************************************************)

AnnotateInit ==
    /\ db \in Databases
    /\ avoid_common \in BOOLEAN
    /\ format = "markdown"
    /\ tokens \in SeqsUpTo(TokenKinds, MaxTokens)
    /\ input_text = ConcatTexts(tokens, 0, Len(tokens))
    /\ apc = "start"
    /\ token_buffer_start = 0
    /\ token_buffer_end = 0
    /\ buffer_possibilities = <<>>
    /\ internal_tokens = <<>>
    /\ covered = <<>>
    /\ fragments = <<>>
    /\ rendered = <<>>
    /\ DictIdle
    /\ SelectIdle
    /\ RenderIdle /\ RankIdle /\ QueryIdle /\ CliIdle /\ BuildIdle

notAnnotate == <<dictVars, selVars, renVars, rankVars, qryVars, cliVars, bldVars>>

\* if text.trim().is_empty() { return Default::default(); } and the caller
\* goes on to render with the format it was given.
AnnotateBlank(f) ==
    /\ apc = "start"
    /\ IsBlank(input_text)
    /\ fragments' = <<>>
    /\ format' = f
    /\ apc' = "render"
    /\ UNCHANGED <<db, avoid_common, input_text, tokens, token_buffer_start,
                   token_buffer_end, buffer_possibilities, internal_tokens,
                   covered, rendered, notAnnotate>>

\* The tokenizer ran; the window is [0, 1) and the possibilities are those
\* of tokens[0].
AnnotateTokenize ==
    /\ apc = "start"
    /\ ~IsBlank(input_text)
    /\ token_buffer_start' = 0
    /\ token_buffer_end' = 1
    /\ buffer_possibilities' = query_text_entries_starting_with(db, tokens[1].text)
    /\ internal_tokens' = <<>>
    /\ apc' = "loop"
    /\ UNCHANGED <<db, avoid_common, format, input_text, tokens, covered,
                   fragments, rendered, notAnnotate>>

\* The tail of an iteration that keeps the possibilities of the previous
\* window.
ResetWindowStale(new_start) ==
    /\ token_buffer_start' = new_start
    /\ token_buffer_end' = new_start + 1
    /\ buffer_possibilities' = buffer_possibilities

\* The tail of an iteration that leaves the start where it was.
ResetWindowInPlace(new_start) ==
    /\ token_buffer_start' = token_buffer_start
    /\ token_buffer_end' = token_buffer_start + 1
    /\ buffer_possibilities' = buffer_possibilities

\* The tail of an iteration that emitted a fragment: the window restarts at
\* the new start and the possibilities are those of the token there, if any.
ResetWindow(new_start) ==
    /\ token_buffer_start' = new_start
    /\ token_buffer_end' = new_start + 1
    /\ buffer_possibilities' =
           IF new_start < Len(tokens)
           THEN query_text_entries_starting_with(db, tokens[new_start + 1].text)
           ELSE buffer_possibilities

\* An iteration that extends the window: a next token exists and the
\* window's text is a prefix of a possibility.
LoopExtend ==
    /\ apc = "loop"
    /\ token_buffer_start < Len(tokens)
    /\ token_buffer_end < Len(tokens)
    /\ possibilities_remain(tokens, buffer_possibilities,
                            token_buffer_start, token_buffer_end)
    /\ token_buffer_end' = token_buffer_end + 1
    /\ UNCHANGED <<db, avoid_common, format, input_text, tokens, apc,
                   token_buffer_start, buffer_possibilities, internal_tokens,
                   covered, fragments, rendered, notAnnotate>>

\* The window cannot be extended.
ExtensionStops ==
    /\ apc = "loop"
    /\ token_buffer_start < Len(tokens)
    /\ ~(/\ token_buffer_end < Len(tokens)
         /\ possibilities_remain(tokens, buffer_possibilities,
                                 token_buffer_start, token_buffer_end))

\* An iteration that emits the token at the start as its own fragment.
LoopEmitSingle ==
    /\ ExtensionStops
    /\ \E longest_possibility_end \in
           {LongestPossibilityEnd(tokens, buffer_possibilities,
                                  token_buffer_start, token_buffer_end)} :
           longest_possibility_end <= token_buffer_start + 1
    /\ internal_tokens' =
           Append(internal_tokens, SingleToken(tokens[token_buffer_start + 1]))
    /\ covered' = Append(covered, <<token_buffer_start, token_buffer_start + 1>>)
    /\ ResetWindow(token_buffer_start + 1)
    /\ UNCHANGED <<db, avoid_common, format, input_text, tokens, apc,
                   fragments, rendered, notAnnotate>>

\* An iteration that emits a run of two or more tokens as one fragment.
LoopEmitMerged ==
    /\ ExtensionStops
    /\ \E longest_possibility_end \in
           {LongestPossibilityEnd(tokens, buffer_possibilities,
                                  token_buffer_start, token_buffer_end)} :
           /\ longest_possibility_end > token_buffer_start + 1
           /\ internal_tokens' =
                  Append(internal_tokens,
                         MergedToken(tokens, token_buffer_start,
                                     longest_possibility_end))
           /\ covered' = Append(covered,
                                <<token_buffer_start, longest_possibility_end>>)
           /\ ResetWindow(longest_possibility_end)
    /\ UNCHANGED <<db, avoid_common, format, input_text, tokens, apc,
                   fragments, rendered, notAnnotate>>

\* The loop ended: every internal token is annotated and annotate returns;
\* the caller goes on to render with the format it was given.
AnnotateReturn(f) ==
    /\ apc = "loop"
    /\ token_buffer_start >= Len(tokens)
    /\ fragments' = [i \in 1..Len(internal_tokens) |->
                        annotate_internal_token(db, avoid_common, internal_tokens[i])]
    /\ format' = f
    /\ apc' = "render"
    /\ UNCHANGED <<db, avoid_common, input_text, tokens, token_buffer_start,
                   token_buffer_end, buffer_possibilities, internal_tokens,
                   covered, rendered, notAnnotate>>

\* The fragment annotate_with_first renders next.
NextFragment == fragments[Len(rendered) + 1]

\* None => frag.text
RenderPlain ==
    /\ apc = "render"
    /\ Len(rendered) < Len(fragments)
    /\ NextFragment.annotations = <<>>
    /\ rendered' = Append(rendered, NextFragment.text)
    /\ UNCHANGED <<db, avoid_common, format, input_text, tokens, apc,
                   token_buffer_start, token_buffer_end, buffer_possibilities,
                   internal_tokens, covered, fragments, notAnnotate>>

\* Some(a) => a.apply(&frag.text, f)
RenderApply ==
    /\ apc = "render"
    /\ Len(rendered) < Len(fragments)
    /\ NextFragment.annotations # <<>>
    /\ \E r \in {Apply(NextFragment.annotations[1], NextFragment.text, format)} :
           /\ ~r.panic
           /\ rendered' = Append(rendered, r.s)
    /\ UNCHANGED <<db, avoid_common, format, input_text, tokens, apc,
                   token_buffer_start, token_buffer_end, buffer_possibilities,
                   internal_tokens, covered, fragments, notAnnotate>>

\* Some(a) => a.apply(&frag.text, f), a slice in apply out of range: the
\* thread panics and nothing is returned.
RenderPanic ==
    /\ apc = "render"
    /\ Len(rendered) < Len(fragments)
    /\ NextFragment.annotations # <<>>
    /\ Apply(NextFragment.annotations[1], NextFragment.text, format).panic
    /\ apc' = "panic"
    /\ UNCHANGED <<db, avoid_common, format, input_text, tokens,
                   token_buffer_start, token_buffer_end, buffer_possibilities,
                   internal_tokens, covered, fragments, rendered, notAnnotate>>

\* .collect(): every fragment is rendered and the string is returned.
RenderReturn ==
    /\ apc = "render"
    /\ Len(rendered) = Len(fragments)
    /\ apc' = "done"
    /\ UNCHANGED <<db, avoid_common, format, input_text, tokens,
                   token_buffer_start, token_buffer_end, buffer_possibilities,
                   internal_tokens, covered, fragments, rendered, notAnnotate>>

AnnotateNext ==
    \/ \E f \in Formats : AnnotateBlank(f)
    \/ AnnotateTokenize
    \/ LoopExtend
    \/ LoopEmitSingle
    \/ LoopEmitMerged
    \/ \E f \in Formats : AnnotateReturn(f)
    \/ RenderPlain
    \/ RenderApply
    \/ RenderPanic
    \/ RenderReturn

SpecAnnotate == AnnotateInit /\ [][AnnotateNext]_vars

\* The concatenation of a sequence of strings.
RECURSIVE Flatten(_)
Flatten(ss) == IF ss = <<>> THEN <<>> ELSE ss[1] \o Flatten(Tail(ss))

(***************************************************************************)
(* Claims about annotate                                                   *)
(***************************************************************************)

\* annotate has returned its fragments.
Annotated == apc \in {"render", "done", "panic"}

\* The texts of the fragments annotate returned, in order.
FragmentTexts == [i \in 1..Len(fragments) |-> fragments[i].text]

\* C1: concatenating the text of all fragments returned by annotate, in
\* order, yields exactly the input string, in skip-common and in
\* include-common mode.  Stated here for the inputs that reach the
\* tokenizer, those with a character that is not whitespace.
C1_FragmentsReconstructInput ==
    (Annotated /\ ~IsBlank(input_text)) => Flatten(FragmentTexts) = input_text

\* The token indices the i-th emitted fragment covers.
CoveredBy(i) == covered[i][1] .. (covered[i][2] - 1)

\* C2: the fragments the segmentation loop emits partition the token
\* sequence: every token index already passed belongs to exactly one
\* fragment, the fragments cover consecutive non-empty ranges in ascending
\* order from index 0 up to the start of the window (the whole sequence once
\* the loop has ended), and the original text of each fragment is the
\* concatenation of the surface text of the tokens it covers.
C2_FragmentsPartitionTokens ==
    (apc \in {"loop", "render", "done", "panic"} /\ ~IsBlank(input_text)) =>
        /\ Len(covered) = Len(internal_tokens)
        /\ \A i \in 1..Len(covered) :
              /\ covered[i][1] < covered[i][2]
              /\ covered[i][1] = (IF i = 1 THEN 0 ELSE covered[i - 1][2])
              /\ internal_tokens[i].original_text
                     = ConcatTexts(tokens, covered[i][1], covered[i][2])
        /\ token_buffer_start = (IF covered = <<>> THEN 0
                                 ELSE covered[Len(covered)][2])
        /\ \A k \in 0..(token_buffer_start - 1) :
              Cardinality({i \in 1..Len(covered) : k \in CoveredBy(i)}) = 1
        /\ Annotated => (token_buffer_start = Len(tokens)
                         /\ Len(fragments) = Len(internal_tokens))

\* The loop has ended on a sequence of MaxTokens tokens having emitted a
\* fragment merged from two or more tokens and a single-token fragment.
C2_Witness ==
    /\ apc = "done"
    /\ Len(tokens) = MaxTokens
    /\ \E i \in 1..Len(covered) : covered[i][2] - covered[i][1] >= 2
    /\ \E i \in 1..Len(covered) : covered[i][2] - covered[i][1] = 1

\* The ends e of the runs tokens[from..e) of two or more tokens whose text
\* is the text of a row of the database.
ExactRunEnds(from) ==
    {e \in (from + 2)..Len(tokens) :
        \E j \in 1..Len(db) : db[j].text = ConcatTexts(tokens, from, e)}

Max(S) == CHOOSE x \in S : \A y \in S : y <= x

\* C3: a fragment emitted at token index start covers the longest run of
\* two or more tokens from start whose text equals the text of a dictionary
\* entry, and the single token at start when there is no such run.
C3_LongestDictionaryRun ==
    \A i \in 1..Len(covered) :
        covered[i][2] = (IF ExactRunEnds(covered[i][1]) = {}
                         THEN covered[i][1] + 1
                         ELSE Max(ExactRunEnds(covered[i][1])))

\* A merged fragment was emitted where runs of two lengths from its start
\* both equal a dictionary text, and annotate has returned.
C3_Witness ==
    /\ Annotated
    /\ \E i \in 1..Len(covered) :
          /\ Cardinality(ExactRunEnds(covered[i][1])) >= 2
          /\ covered[i][2] = Max(ExactRunEnds(covered[i][1]))

\* A span of the annotation does not fit the text: an index at or beyond the
\* length in characters, or a start greater than the end.
SpanFits(span, chars) ==
    /\ span.start_index < Len(chars)
    /\ span.end_index < Len(chars)
    /\ span.start_index <= span.end_index

IllFitting(fragment) ==
    /\ fragment.annotations # <<>>
    /\ \E k \in 1..Len(fragment.annotations[1].spans) :
          ~SpanFits(fragment.annotations[1].spans[k], fragment.text)

\* C10: annotating and rendering completes and produces output for every
\* fragment; a fragment without annotations, or whose chosen annotation has
\* a span that does not fit its text, is rendered as its plain text and the
\* remaining fragments are rendered.
C10_RenderingNeverAborts ==
    /\ apc # "panic"
    /\ apc = "done" => Len(rendered) = Len(fragments)
    /\ \A i \in 1..Len(rendered) :
          (fragments[i].annotations = <<>> \/ IllFitting(fragments[i]))
              => rendered[i] = fragments[i].text

(***************************************************************************)
(* Annotation::apply on one reference text, run once per format.  The      *)
(* three runs advance together; each keeps its own accumulator.            *)
(***************************************************************************)

MaxSpans == 2
MaxIndex == 2

\* Reference texts of distinct characters, so that a character emitted
\* twice or out of order shows.
RenderTexts == {<<>>, <<"a">>, <<"a", "b">>, <<"a", "b", "c">>}

RenderSpans ==
    {Span(from, to, rt) : from \in 0..MaxIndex, to \in 0..MaxIndex,
                          rt \in {<<"x">>, <<"y">>}}

\* An untouched slice pushed to the output, and a base passed to format
\* with its reading.
PlainPiece(slice) == [kind |-> "plain", base |-> slice, reading |-> <<>>]
RubyPiece(base, rt) == [kind |-> "ruby", base |-> base, reading |-> rt]

\* What one call of the fold's closure pushes: the untouched slice
\* text[valid_next_index..start_index] and format(base, text), or nothing
\* when the span starts before valid_next_index.
EmittedBy(chars, acc, span, next) ==
    IF acc.panic \/ next.panic \/ span.start_index < acc.valid_next_index
    THEN <<>>
    ELSE << PlainPiece(SubSeq(chars, acc.valid_next_index + 1, span.start_index)),
            RubyPiece(SubSeq(chars, span.start_index + 1, span.end_index + 1),
                      span.text) >>

RenderInit ==
    /\ r_text \in RenderTexts
    /\ r_spans \in SeqsUpTo(RenderSpans, MaxSpans)
    /\ r_folded = 0
    /\ r_acc = [f \in Formats |-> FoldStart]
    /\ r_emitted = [f \in Formats |-> <<>>]
    /\ rpc = "fold"
    /\ DictIdle /\ SelectIdle /\ AnnotateIdle
    /\ RankIdle /\ QueryIdle /\ CliIdle /\ BuildIdle

notRender == <<dictVars, selVars, annVars, rankVars, qryVars, cliVars, bldVars>>

\* One call of the fold's closure, in each run.
FoldStep ==
    /\ rpc = "fold"
    /\ r_folded < Len(r_spans)
    /\ \E next \in {[f \in Formats |->
                       ApplyStep(r_text, r_acc[f], r_spans[r_folded + 1], f)]} :
          /\ r_acc' = next
          /\ r_emitted' = [f \in Formats |->
                             r_emitted[f] \o EmittedBy(r_text, r_acc[f],
                                                       r_spans[r_folded + 1], next[f])]
    /\ r_folded' = r_folded + 1
    /\ UNCHANGED <<r_text, r_spans, rpc, notRender>>

\* s.push_str(&text[last_index..]) and the return, in each run that did
\* not panic.
PushTail ==
    /\ rpc = "fold"
    /\ r_folded = Len(r_spans)
    /\ r_acc' = [f \in Formats |->
                   IF r_acc[f].panic THEN r_acc[f]
                   ELSE [r_acc[f] EXCEPT
                            !.s = @ \o Drop(r_text, r_acc[f].valid_next_index + 1)]]
    /\ r_emitted' = [f \in Formats |->
                       IF r_acc[f].panic THEN r_emitted[f]
                       ELSE Append(r_emitted[f],
                                   PlainPiece(Drop(r_text, r_acc[f].valid_next_index + 1)))]
    /\ rpc' = "done"
    /\ UNCHANGED <<r_text, r_spans, r_folded, notRender>>

RenderNext == FoldStep \/ PushTail

SpecRender == RenderInit /\ [][RenderNext]_vars

\* Every index of every span lies inside the text.
SpansInside ==
    \A k \in 1..Len(r_spans) :
        /\ r_spans[k].start_index < Len(r_text)
        /\ r_spans[k].end_index < Len(r_text)

\* The characters of the text a run emitted, in emission order.
EmittedSource(f) == Flatten([k \in 1..Len(r_emitted[f]) |-> r_emitted[f][k].base])

\* C11: for every reference text and every list of spans whose indices lie
\* inside the text, sorted or not, overlapping or not, the renderer returns
\* and has emitted each character of the text exactly once and in order: the
\* untouched slices and the bases passed to format, concatenated in emission
\* order, are the reference text.
C11_EachCharacterEmittedOnce ==
    (rpc = "done" /\ SpansInside) =>
        \A f \in Formats : ~r_acc[f].panic /\ EmittedSource(f) = r_text

\* The same with every span also having its start at or before its end:
\* this much holds of apply.
EmittedOnceWhenOrdered ==
    (rpc = "done" /\ SpansInside
        /\ \A k \in 1..Len(r_spans) : r_spans[k].start_index <= r_spans[k].end_index) =>
        \A f \in Formats : ~r_acc[f].panic /\ EmittedSource(f) = r_text

\* The characters of a string literal.
Chars(lit) ==
    CASE lit = "[" -> <<"[">>
      [] lit = "]{" -> <<"]", "{">>
      [] lit = "}" -> <<"}">>
      [] lit = "<ruby>" -> <<"<", "r", "u", "b", "y", ">">>
      [] lit = "<rp>(</rp><rt>" ->
             <<"<", "r", "p", ">", "(", "<", "/", "r", "p", ">", "<", "r", "t", ">">>
      [] lit = "</rt><rp>)</rp></ruby>" ->
             <<"<", "/", "r", "t", ">", "<", "r", "p", ">", ")", "<", "/", "r", "p", ">",
               "<", "/", "r", "u", "b", "y", ">">>
      [] lit = "\\ruby{" -> <<"\\", "r", "u", "b", "y", "{">>
      [] lit = "}{" -> <<"}", "{">>

\* The wrapper each format puts around a (base, reading) pair:
\* [base]{reading}, <ruby>base<rp>(</rp><rt>reading</rt><rp>)</rp></ruby>
\* and \ruby{base}{reading}.
Wrapped(f, base, rt) ==
    CASE f = "markdown" -> Chars("[") \o base \o Chars("]{") \o rt \o Chars("}")
      [] f = "html" -> Chars("<ruby>") \o base \o Chars("<rp>(</rp><rt>") \o rt
                           \o Chars("</rt><rp>)</rp></ruby>")
      [] f = "latex" -> Chars("\\ruby{") \o base \o Chars("}{") \o rt \o Chars("}")

\* The output made of a sequence of pieces: the untouched slices as they
\* are and every pair in the wrapper of the format.
OutputOf(pieces, f) ==
    Flatten([k \in 1..Len(pieces) |->
                IF pieces[k].kind = "plain" THEN pieces[k].base
                ELSE Wrapped(f, pieces[k].base, pieces[k].reading)])

\* C19: rendering the same text with the same spans through the Markdown,
\* HTML and LaTeX formatters produces the same sequence of untouched slices
\* and (base, reading) pairs, and the outputs differ only in the wrapper
\* around each pair.
C19_FormatsSharePartition ==
    /\ \A f, g \in DOMAIN r_acc :
          /\ r_acc[f].panic = r_acc[g].panic
          /\ r_emitted[f] = r_emitted[g]
    /\ \A f \in DOMAIN r_acc :
          (rpc = "done" /\ ~r_acc[f].panic) =>
              r_acc[f].s = OutputOf(r_emitted[f], f)

\* The three runs returned after formatting two pairs with different
\* readings, with a non-empty untouched slice.
C19_Witness ==
    /\ rpc = "done"
    /\ \A f \in Formats : ~r_acc[f].panic
    /\ \E i, j \in 1..Len(r_emitted["html"]) :
          /\ i < j
          /\ r_emitted["html"][i].kind = "ruby"
          /\ r_emitted["html"][j].kind = "ruby"
          /\ r_emitted["html"][i].reading # r_emitted["html"][j].reading
    /\ \E i \in 1..Len(r_emitted["html"]) :
          /\ r_emitted["html"][i].kind = "plain"
          /\ r_emitted["html"][i].base # <<>>

(***************************************************************************)
(* Annotator::annotate_internal_token on one token: the candidates of a    *)
(* fragment and their order.                                               *)
(***************************************************************************)

MaxRows == 3

\* A row of text_entry with both frequency flags of its entry.
FlaggedRow(t, reading, text_common, reading_common) ==
    [text |-> t, reading |-> reading, text_common |-> text_common,
     reading_common |-> reading_common,
     spans |-> <<Span(0, 0, reading)>>]

RankRows ==
    {FlaggedRow(<<"k1">>, r, tc, rc) :
        r \in {<<"ka">>, <<"mi">>}, tc \in BOOLEAN, rc \in BOOLEAN}
    \cup {FlaggedRow(<<"k2">>, <<"mi">>, FALSE, FALSE)}

\* unique(text, reading)
UniqueKeys(rows) ==
    \A i, j \in 1..Len(rows) :
        (rows[i].text = rows[j].text /\ rows[i].reading = rows[j].reading) => i = j

RankDatabases == {rows \in SeqsUpTo(RankRows, MaxRows) : UniqueKeys(rows)}

\* The InternalToken of a single token with a reading hint, of a merged
\* run, of a token whose details have another shape, and of a token whose
\* lemma is not its surface text.
RankTokens ==
    { SingleToken([text |-> <<"k1">>, details |-> Details(<<"k1">>, <<"KA">>)]),
      FromText(<<"k1">>),
      SingleToken([text |-> <<"k2">>, details |-> UnknownDetails]),
      SingleToken([text |-> <<"k3">>, details |-> Details(<<"k1">>, <<"MI">>)]) }

RankInit ==
    /\ rank_db \in RankDatabases
    /\ rank_avoid \in BOOLEAN
    /\ rank_token \in RankTokens
    /\ rank_fragment = NoFragment
    /\ DictIdle /\ SelectIdle /\ AnnotateIdle
    /\ RenderIdle /\ QueryIdle /\ CliIdle /\ BuildIdle

notRank == <<dictVars, selVars, annVars, renVars, qryVars, cliVars, bldVars>>

\* self.annotate_internal_token(internal_token)
AnnotateInternalToken ==
    /\ rank_fragment = NoFragment
    /\ rank_fragment' = annotate_internal_token(rank_db, rank_avoid, rank_token)
    /\ UNCHANGED <<rank_db, rank_avoid, rank_token, notRank>>

RankNext == AnnotateInternalToken

SpecRank == RankInit /\ [][RankNext]_vars

\* lookupExact(K): the rows whose text is the lookup key, in id order.
LookupExact == SelectSeq(rank_db, LAMBDA r : r.text = rank_token.lookup_text)

HintMatches(r) ==
    rank_token.reading_hint.present /\ r.reading = rank_token.reading_hint.value

\* The stable sort of lookupExact(K) by the descending priority tuple
\* (reading equals the hint, reading flagged common).
RankedByTuple ==
    SelectSeq(LookupExact, LAMBDA r : HintMatches(r) /\ r.reading_common)
        \o SelectSeq(LookupExact, LAMBDA r : HintMatches(r) /\ ~r.reading_common)
        \o SelectSeq(LookupExact, LAMBDA r : ~HintMatches(r) /\ r.reading_common)
        \o SelectSeq(LookupExact, LAMBDA r : ~HintMatches(r) /\ ~r.reading_common)

Readings(rs) == [i \in 1..Len(rs) |-> rs[i].reading]

\* C12: in include-common mode, where no entry is filtered out, the
\* candidates of a fragment with lookup key K and reading hint H are the
\* stable sort of lookupExact(K) by the descending priority tuple (reading
\* equals H, reading flagged common), no candidate lost or duplicated.
C12_RankedByHintThenCommon ==
    (rank_fragment # NoFragment /\ ~rank_avoid) =>
        Readings(rank_fragment.annotations) = Readings(RankedByTuple)

\* The same without the second component of the tuple: the entries whose
\* reading equals the hint first, each part in lookup order.  This much
\* holds of annotate_internal_token.
RankedByHintOnly ==
    (rank_fragment # NoFragment /\ ~rank_avoid) =>
        Readings(rank_fragment.annotations) =
            Readings(SelectSeq(LookupExact, HintMatches)
                        \o SelectSeq(LookupExact, LAMBDA r : ~HintMatches(r)))

\* The row of lookupExact(K) a candidate was made of.
RowOf(candidate) ==
    CHOOSE r \in Range(LookupExact) : r.reading = candidate.reading

\* C13: in skip-common mode no candidate of a fragment is flagged
\* text-common, and every entry of lookupExact(K) that is not flagged
\* text-common is a candidate.
C13_CommonEntriesFiltered ==
    (rank_fragment # NoFragment /\ rank_avoid) =>
        /\ \A i \in 1..Len(rank_fragment.annotations) :
              ~RowOf(rank_fragment.annotations[i]).text_common
        /\ \A r \in Range(LookupExact) :
              ~r.text_common =>
                  \E i \in 1..Len(rank_fragment.annotations) :
                      rank_fragment.annotations[i].reading = r.reading

(***************************************************************************)
(* Claims about the selection heuristics                                   *)
(***************************************************************************)

\* The i-th completed call was the first with its fragment's text, so
\* FirstOccurrence handed the fragment to the heuristic.
FirstCallWithText(i) ==
    \A j \in 1..(i - 1) : callLog[j].fragment.text # callLog[i].fragment.text

\* candidates[0] has neither its text nor its reading flagged common.
FirstIsUncommon(fragment) ==
    /\ fragment.annotations # <<>>
    /\ ~fragment.annotations[1].text_is_common
    /\ ~fragment.annotations[1].reading_is_common

\* C14: UncommonOnly returns candidates[0] exactly when the list is not
\* empty and candidates[0] has neither its text nor its reading flagged
\* common, and none in every other case, also when a later candidate is
\* uncommon.
C14_UncommonOnlyFirstOrNone ==
    selector = "UncommonOnly" =>
        \A i \in 1..Len(callLog) :
            FirstCallWithText(i) =>
                callLog[i].ret = (IF FirstIsUncommon(callLog[i].fragment)
                                  THEN Some(callLog[i].fragment.annotations[1])
                                  ELSE None)

\* UncommonOnly returned none for a fragment whose first candidate is
\* common and whose second is uncommon, and candidates[0] for another.
C14_Witness ==
    /\ selector = "UncommonOnly"
    /\ \E i \in 1..Len(callLog) :
          /\ FirstCallWithText(i)
          /\ ~FirstIsUncommon(callLog[i].fragment)
          /\ Len(callLog[i].fragment.annotations) = 2
          /\ ~callLog[i].fragment.annotations[2].text_is_common
          /\ ~callLog[i].fragment.annotations[2].reading_is_common
          /\ ~callLog[i].ret.some
    /\ \E i \in 1..Len(callLog) : callLog[i].ret.some

\* C15: All returns candidates[0] whenever the list is not empty, whatever
\* the frequency flags of the entry, and none exactly when it is empty.
C15_AllPicksFirst ==
    selector = "All" =>
        \A i \in 1..Len(callLog) :
            FirstCallWithText(i) =>
                callLog[i].ret = (IF callLog[i].fragment.annotations # <<>>
                                  THEN Some(callLog[i].fragment.annotations[1])
                                  ELSE None)

\* All returned a candidate flagged common, and none for a fragment
\* without candidates.
C15_Witness ==
    /\ selector = "All"
    /\ \E i \in 1..Len(callLog) :
          /\ callLog[i].ret.some
          /\ callLog[i].ret.entry.text_is_common
    /\ \E i \in 1..Len(callLog) :
          /\ callLog[i].fragment.annotations = <<>>
          /\ ~callLog[i].ret.some

(***************************************************************************)
(* Claims about rendering without a selection                              *)
(***************************************************************************)

\* C16: a fragment for which no candidate is selected is rendered as its
\* text with no markup; hence when no candidate is selected for any
\* fragment of a document that reaches the tokenizer, the rendered output is
\* the input string unchanged.
C16_NoSelectionRendersInput ==
    /\ \A i \in 1..Len(rendered) :
          fragments[i].annotations = <<>> => rendered[i] = fragments[i].text
    /\ (/\ apc = "done"
        /\ ~IsBlank(input_text)
        /\ \A i \in 1..Len(fragments) : fragments[i].annotations = <<>>)
           => Flatten(rendered) = input_text

(***************************************************************************)
(* autoruby-cli main: the Annotate command                                 *)
(***************************************************************************)

StoreNeverMissing(exists) == FALSE

\* !config.db_path.exists()
StoreMissing(exists) == ~exists

CliTexts == {<<>>, <<"k1">>, <<"k1", "k2">>}

CliInit ==
    /\ db_exists \in BOOLEAN
    /\ auto_download \in BOOLEAN
    /\ include_common \in BOOLEAN
    /\ mode \in Formats
    /\ stdin_text \in CliTexts
    /\ input_read = [read |-> FALSE, text |-> <<>>]
    /\ output_written = FALSE
    /\ stderr_log = <<>>
    /\ cpc = "start"
    /\ DictIdle /\ SelectIdle /\ AnnotateIdle
    /\ RenderIdle /\ RankIdle /\ QueryIdle /\ BuildIdle

notCli == <<dictVars, selVars, annVars, renVars, rankVars, qryVars, bldVars>>

\* The dictionary file exists: main goes on to read the input.
StoreFound ==
    /\ cpc = "start"
    /\ ~StoreMissing(db_exists)
    /\ cpc' = "input"
    /\ UNCHANGED <<db_exists, auto_download, include_common, mode, stdin_text,
                   input_read, output_written, stderr_log, notCli>>

\* The dictionary file is missing and --auto-download is set.
StoreDownload ==
    /\ cpc = "start"
    /\ StoreMissing(db_exists)
    /\ auto_download
    /\ cpc' = "download"
    /\ stderr_log' = Append(stderr_log, "Downloading dictionary")
    /\ UNCHANGED <<db_exists, auto_download, include_common, mode, stdin_text,
                   input_read, output_written, notCli>>

\* The dictionary file is missing and --auto-download is not set:
\* panic!("Dictionary not found: ..")
StorePanic ==
    /\ cpc = "start"
    /\ StoreMissing(db_exists)
    /\ ~auto_download
    /\ cpc' = "panic"
    /\ stderr_log' = Append(stderr_log, "Dictionary not found")
    /\ UNCHANGED <<db_exists, auto_download, include_common, mode, stdin_text,
                   input_read, output_written, notCli>>

\* download_dict_command: the dictionary is downloaded and built.
DownloadDone ==
    /\ cpc = "download"
    /\ db_exists' = TRUE
    /\ cpc' = "input"
    /\ stderr_log' = Append(stderr_log, "Done downloading dictionary.")
    /\ UNCHANGED <<auto_download, include_common, mode, stdin_text,
                   input_read, output_written, notCli>>

\* download_dict_command: create_dir_all, the download or the open of the
\* database fails and its unwrap panics.
DownloadPanic ==
    /\ cpc = "download"
    /\ cpc' = "panic"
    /\ UNCHANGED <<db_exists, auto_download, include_common, mode, stdin_text,
                   input_read, output_written, stderr_log, notCli>>

\* let input_text = input(a.input_path);
ReadInput ==
    /\ cpc = "input"
    /\ input_read' = [read |-> TRUE, text |-> stdin_text]
    /\ cpc' = "new"
    /\ UNCHANGED <<db_exists, auto_download, include_common, mode, stdin_text,
                   output_written, stderr_log, notCli>>

\* Annotator::new(&config.db_path, !a.include_common)
NewAnnotator ==
    /\ cpc = "new"
    /\ cpc' = "annotate"
    /\ UNCHANGED <<db_exists, auto_download, include_common, mode, stdin_text,
                   input_read, output_written, stderr_log, notCli>>

\* processor.annotate(a.mode.formatter(), &input_text) returns the string.
Generate ==
    /\ cpc = "annotate"
    /\ cpc' = "output"
    /\ UNCHANGED <<db_exists, auto_download, include_common, mode, stdin_text,
                   input_read, output_written, stderr_log, notCli>>

\* processor.annotate panics: a query fails or a span leaves its text.
GeneratePanic ==
    /\ cpc = "annotate"
    /\ ~IsBlank(input_read.text)
    /\ cpc' = "panic"
    /\ UNCHANGED <<db_exists, auto_download, include_common, mode, stdin_text,
                   input_read, output_written, stderr_log, notCli>>

\* output(a.output_path).write_all(generated.as_bytes())
WriteOutput ==
    /\ cpc = "output"
    /\ output_written' = TRUE
    /\ cpc' = "done"
    /\ UNCHANGED <<db_exists, auto_download, include_common, mode, stdin_text,
                   input_read, stderr_log, notCli>>

CliNext ==
    \/ StoreFound
    \/ StoreDownload
    \/ StorePanic
    \/ DownloadDone
    \/ DownloadPanic
    \/ ReadInput
    \/ NewAnnotator
    \/ Generate
    \/ GeneratePanic
    \/ WriteOutput

SpecCli == CliInit /\ [][CliNext]_vars

\* C18: in the Annotate command with no dictionary file and auto-download
\* not set, the failure comes before any input is read, tokenized or
\* annotated and before any output is written: the command is at its start
\* or has panicked, and nothing was read or written.
C18_MissingStoreFailsFirst ==
    (~db_exists /\ ~auto_download) =>
        /\ cpc \in {"start", "panic"}
        /\ ~input_read.read
        /\ ~output_written

\* The command panicked on the missing dictionary with text waiting on the
\* input.
C18_Witness ==
    /\ ~db_exists
    /\ ~auto_download
    /\ cpc = "panic"
    /\ stdin_text # <<>>

(***************************************************************************)
(* Annotator::query_text_entries_starting_with on one prefix               *)
(***************************************************************************)

MaxPrefixLen == 2

\* A letter in both cases, the two LIKE wildcards and the escape character.
PrefixChars == {"a", "A", "%", "_", "\\"}

QueryRows ==
    << Row(<<"a">>, <<"x">>, FALSE, <<>>),
       Row(<<"A", "b">>, <<"x">>, FALSE, <<>>),
       Row(<<"%", "a">>, <<"x">>, FALSE, <<>>),
       Row(<<"_">>, <<"x">>, FALSE, <<>>),
       Row(<<"\\", "a">>, <<"x">>, FALSE, <<>>),
       Row(<<"b", "a">>, <<"x">>, FALSE, <<>>),
       Row(<<"a", "%">>, <<"x">>, FALSE, <<>>) >>

QueryDatabases ==
    {SelectSeq(QueryRows, LAMBDA r : r \in S) : S \in SUBSET Range(QueryRows)}

QueryInit ==
    /\ q_db \in QueryDatabases
    /\ q_prefix \in SeqsUpTo(PrefixChars, MaxPrefixLen)
    /\ q_result = <<>>
    /\ qpc = "start"
    /\ DictIdle /\ SelectIdle /\ AnnotateIdle
    /\ RenderIdle /\ RankIdle /\ CliIdle /\ BuildIdle

notQuery == <<dictVars, selVars, annVars, renVars, rankVars, cliVars, bldVars>>

\* self.query_text_entries_starting_with(prefix)
QueryStartingWith ==
    /\ qpc = "start"
    /\ q_result' = query_text_entries_starting_with(q_db, q_prefix)
    /\ qpc' = "done"
    /\ UNCHANGED <<q_db, q_prefix, notQuery>>

QueryNext == QueryStartingWith

SpecQuery == QueryInit /\ [][QueryNext]_vars

\* The texts of the rows that satisfy a condition, in id order.
TextsWhere(rows, Cond(_)) ==
    [i \in 1..Len(SelectSeq(rows, Cond)) |-> SelectSeq(rows, Cond)[i].text]

\* C20: for every prefix, also one that contains '%', '_' or the backslash,
\* the prefix query returns the entries whose text starts with the prefix
\* taken literally.
C20_PrefixQueryIsLiteral ==
    qpc = "done" =>
        q_result = TextsWhere(q_db, LAMBDA r : StartsWith(r.text, q_prefix))

\* The text and the prefix with their ASCII letters in lower case.
Folded(t) == [i \in 1..Len(t) |-> AsciiLower(t[i])]

\* The same up to the case of ASCII letters; this much holds of the query:
\* no character of the prefix acts as a wildcard and no escape is doubled.
PrefixQueryIsLiteralUpToCase ==
    qpc = "done" =>
        q_result = TextsWhere(q_db, LAMBDA r :
                                  StartsWith(Folded(r.text), Folded(q_prefix)))

(***************************************************************************)
(* The token window of annotate                                            *)
(***************************************************************************)

\* The loop of annotate is about to run an iteration.
AtIteration == apc = "loop" /\ token_buffer_start < Len(tokens)

\* The window is a non-empty range of existing tokens and the possibilities
\* are those of the token at its start.
WindowInRange ==
    /\ 0 <= token_buffer_start
    /\ token_buffer_start < token_buffer_end
    /\ token_buffer_end <= Len(tokens)
    /\ buffer_possibilities =
           query_text_entries_starting_with(db, tokens[token_buffer_start + 1].text)

\* The window was just set to one token: by the start of annotate or by an
\* iteration that emitted a fragment and advanced the start.
WindowWasReset ==
    /\ token_buffer_end' = token_buffer_start' + 1
    /\ apc = "start" \/ token_buffer_start' > token_buffer_start

\* C21: at every iteration of the loop 0 <= start < end <= number of
\* tokens and the possibilities are the result of the prefix query on the
\* text of the token at start; the possibilities change only in a step that
\* resets the window to a token that exists.
C21_WindowInvariant ==
    [][/\ AtIteration' => WindowInRange'
       /\ buffer_possibilities' # buffer_possibilities
              => AtIteration' /\ WindowWasReset]_vars

\* An iteration after a reset whose window was extended to two tokens.
C21_Witness ==
    /\ AtIteration
    /\ token_buffer_start >= 1
    /\ token_buffer_end = token_buffer_start + 2
    /\ buffer_possibilities # <<>>

(***************************************************************************)
(* Lookup key and reading hint of the emitted fragments                    *)
(***************************************************************************)

\* The token carries the detail record of the expected shape.
HasDetail(token) ==
    token.details.present /\ Len(token.details.fields) = DetailFields

dictionary_form(token) == token.details.fields[7]
reading_katakana(token) == token.details.fields[8]

\* The i-th internal token was emitted for one token / for a run.
IsSingle(i) == covered[i][2] = covered[i][1] + 1
IsRun(i) == covered[i][2] > covered[i][1] + 1
TokenOf(i) == tokens[covered[i][1] + 1]

\* C22: the fragment of a single token with detail is looked up by the
\* token's lemma with the token's reading (in hiragana) as hint, the
\* fragment of a single token without detail by its surface text with no
\* hint; the fragment of a run of two or more tokens is looked up by the
\* concatenated surface text and has no hint.
C22_LookupKeyAndHint ==
    \A i \in 1..Len(internal_tokens) :
        /\ IsSingle(i) /\ HasDetail(TokenOf(i)) =>
              /\ internal_tokens[i].lookup_text = dictionary_form(TokenOf(i))
              /\ internal_tokens[i].reading_hint.present
              /\ internal_tokens[i].reading_hint.value = to_hiragana(reading_katakana(TokenOf(i)))
        /\ IsSingle(i) /\ ~HasDetail(TokenOf(i)) =>
              /\ internal_tokens[i].lookup_text = TokenOf(i).text
              /\ ~internal_tokens[i].reading_hint.present
        /\ IsRun(i) =>
              /\ internal_tokens[i].lookup_text =
                     ConcatTexts(tokens, covered[i][1], covered[i][2])
              /\ ~internal_tokens[i].reading_hint.present

\* A single token whose lemma is not its surface text and a run with a
\* token that carries detail were both emitted.
C22_Witness ==
    /\ \E i \in 1..Len(internal_tokens) :
           /\ IsSingle(i) /\ HasDetail(TokenOf(i))
           /\ dictionary_form(TokenOf(i)) # TokenOf(i).text
    /\ \E i \in 1..Len(internal_tokens) :
           /\ IsRun(i)
           /\ \E j \in (covered[i][1] + 1)..covered[i][2] : HasDetail(tokens[j])

\* annotate returned its fragments.
AnnotateReturned == apc \in {"render", "done", "panic"} /\ ~IsBlank(input_text)

\* The i-th token has no detail record of the expected shape.
Opaque(j) == ~HasDetail(tokens[j])

\* C23: a token without a detail record of the expected shape that is
\* emitted on its own becomes an internal token with its surface text as
\* original and lookup text and no hint, and the loop goes on: when annotate
\* returns, the fragments cover every token, those after the opaque token
\* included.
C23_OpaqueTokenDegrades ==
    /\ \A i \in 1..Len(internal_tokens) :
           IsSingle(i) /\ ~HasDetail(TokenOf(i)) =>
               internal_tokens[i] = FromText(TokenOf(i).text)
    /\ AnnotateReturned /\ (\E j \in 1..Len(tokens) : Opaque(j)) =>
           /\ Len(fragments) = Len(internal_tokens)
           /\ \A j \in 1..Len(tokens) :
                  \E i \in 1..Len(covered) :
                      covered[i][1] < j /\ j <= covered[i][2]

\* annotate returned for an input whose first token has a detail record of
\* another shape, whose second has none, and whose last has a proper one.
C23_Witness ==
    /\ AnnotateReturned
    /\ Len(tokens) = 3
    /\ tokens[1].details.present /\ ~HasDetail(tokens[1])
    /\ ~tokens[2].details.present
    /\ HasDetail(tokens[3])
    /\ Len(fragments) = 3

(***************************************************************************)
(* valid_next_index in the fold of Annotation::apply                       *)
(***************************************************************************)

\* The closure of the fold ran on one more span.
Folded1 == r_folded' = r_folded + 1

\* What the claim says of the step of one run on the span it was given:
\* valid_next_index does not decrease; a span that starts at or after it
\* pushes the untouched slice and format(base, reading) and moves it to
\* end_index + 1; a span that starts before it pushes nothing and leaves it.
StepAsClaimed(f) ==
    \E span \in {r_spans[r_folded + 1]} :
      \E from \in {r_acc[f].valid_next_index} :
        /\ r_acc'[f].valid_next_index >= from
        /\ span.start_index >= from =>
              /\ ~r_acc'[f].panic
              /\ r_acc'[f].valid_next_index = span.end_index + 1
              /\ r_emitted'[f] = r_emitted[f] \o
                     << PlainPiece(SubSeq(r_text, from + 1, span.start_index)),
                        RubyPiece(SubSeq(r_text, span.start_index + 1,
                                         span.end_index + 1), span.text) >>
              /\ r_acc'[f].s = r_acc[f].s
                     \o SubSeq(r_text, from + 1, span.start_index)
                     \o Wrapped(f, SubSeq(r_text, span.start_index + 1,
                                          span.end_index + 1), span.text)
        /\ span.start_index < from =>
              /\ r_acc'[f] = r_acc[f]
              /\ r_emitted'[f] = r_emitted[f]

\* C24: while rendering, valid_next_index never decreases; a span is
\* applied exactly when its start is at or after valid_next_index, and then
\* the untouched slice [valid_next_index, start) and format(base, reading)
\* are emitted and valid_next_index becomes end + 1; a span that starts
\* before valid_next_index emits nothing and leaves it unchanged.
C24_NextValidIndex ==
    [][Folded1 => \A f \in Formats : ~r_acc[f].panic => StepAsClaimed(f)]_vars

\* The same for the steps in which no slice leaves the text: this much
\* holds of apply.
NextValidIndexUnlessPanic ==
    [][Folded1 => \A f \in Formats : ~r_acc'[f].panic => StepAsClaimed(f)]_vars

(***************************************************************************)
(* build.rs: the build script of the relational dictionary.  It reads the  *)
(* raw lines, inserts a text_entry row per line and a ruby_entry row per   *)
(* span, and commits every BatchSize lines.  A run may be cut short at any *)
(* statement; the transaction it had open is rolled back and the script    *)
(* is run again on the same database file.  build of dictionary.rs runs    *)
(* on the same lines.                                                      *)
(***************************************************************************)

\* Lines per transaction: 1000 in the build script, scaled down so that a
\* short corpus spans several batches.
BatchSize == 2

MaxBuildLines == 3
MaxInterrupts == 2

\* Two lines with the same text and reading and different spans, a line
\* with two spans, and a line that does not parse.
BuildRawLines ==
    { <<"a", "|", "x", "|", "0", ":", "x">>,
      <<"a", "|", "x", "|", "0", "-", "1", ":", "y">>,
      <<"a", "b", "|", "x", "y", "|", "0", ":", "x", ";", "1", ":", "y">>,
      <<"a", "b">> }

\* unique(text, reading): the table holds a row with this pair.
HasEntry(store, t, reading) ==
    \E k \in 1..Len(store.text_entry) :
        store.text_entry[k].text = t /\ store.text_entry[k].reading = reading

\* insert into text_entry (text, reading) values (?1, ?2), on a table
\* without the unique constraint: the row is always added.
InsertEntryAlways(store, t, reading) ==
    [rows_affected |-> 1,
     store |-> [store EXCEPT !.text_entry =
                   Append(@, [id |-> Len(@) + 1, text |-> t, reading |-> reading])]]

\* insert or ignore into text_entry (text, reading) values (?1, ?2): the row
\* gets the next rowid, or nothing happens when the pair is there already.
InsertOrIgnoreEntry(store, t, reading) ==
    IF HasEntry(store, t, reading)
    THEN [rows_affected |-> 0, store |-> store]
    ELSE [rows_affected |-> 1,
          store |-> [store EXCEPT !.text_entry =
                        Append(@, [id |-> Len(@) + 1, text |-> t,
                                   reading |-> reading])]]

\* insert into ruby_entry (text_entry_id, start_index, end_index, rt)
InsertRubyEntry(store, id, ruby) ==
    [store EXCEPT !.ruby_entry =
        Append(@, [id |-> Len(@) + 1, text_entry_id |-> id,
                   start_index |-> ruby.start_index,
                   end_index |-> ruby.end_index, rt |-> ruby.text])]

\* if i % 1000 == 0 && i != 0
CommitDue(i) == i % BatchSize = 0 /\ i # 0

notBuild == <<selVars, annVars, renVars, rankVars, qryVars, cliVars>>

BuildInit ==
    /\ lines \in SeqsUpTo(BuildRawLines, MaxBuildLines)
    /\ frequency = <<>>
    /\ lineIdx = 0
    /\ tree = EmptyTree
    /\ result = Pending
    /\ lastWord = NoLookup
    /\ lastPrefix = NoLookup
    /\ b_committed = EmptyStore
    /\ b_db = EmptyStore
    /\ b_i = 0
    /\ b_id = 0
    /\ b_rubies = <<>>
    /\ b_runs = 0
    /\ bpc = "start"
    /\ SelectIdle /\ AnnotateIdle /\ RenderIdle
    /\ RankIdle /\ QueryIdle /\ CliIdle

\* Connection::open, create table if not exists, prepare, begin: the
\* connection sees what the file holds.
ScriptStart ==
    /\ bpc = "start"
    /\ b_db' = b_committed
    /\ b_i' = 0
    /\ bpc' = "loop"
    /\ UNCHANGED <<b_committed, b_id, b_rubies, b_runs, dictVars, notBuild>>

\* The head of an iteration on a line that parses: the commit of the batch
\* when one is due, then the insert of the entry.  With rows_affected > 0
\* the spans of the entry are inserted next.
ScriptLine ==
    /\ bpc = "loop"
    /\ b_i < Len(lines)
    /\ b_committed' = IF CommitDue(b_i) THEN b_db ELSE b_committed
    /\ \E p \in {dictionary_line(lines[b_i + 1])} :
         /\ p.ok
         /\ \E r \in {InsertOrIgnoreEntry(b_db, p.val.text, p.val.reading)} :
              /\ b_db' = r.store
              /\ IF r.rows_affected > 0 /\ p.val.reading_spans # <<>>
                 THEN /\ b_id' = Len(r.store.text_entry)
                      /\ b_rubies' = p.val.reading_spans
                      /\ b_i' = b_i
                      /\ bpc' = "rubies"
                 ELSE /\ b_id' = IF r.rows_affected > 0
                                 THEN Len(r.store.text_entry) ELSE b_id
                      /\ b_rubies' = <<>>
                      /\ b_i' = b_i + 1
                      /\ bpc' = "loop"
    /\ UNCHANGED <<b_runs, dictVars, notBuild>>

\* The head of an iteration on a line that does not parse: the commit of
\* the batch when one is due, then dictionary_line(&line).unwrap() panics.
ScriptLinePanic ==
    /\ bpc = "loop"
    /\ b_i < Len(lines)
    /\ ~dictionary_line(lines[b_i + 1]).ok
    /\ b_committed' = IF CommitDue(b_i) THEN b_db ELSE b_committed
    /\ bpc' = "panic"
    /\ UNCHANGED <<b_db, b_i, b_id, b_rubies, b_runs, dictVars, notBuild>>

\* for ruby in entry.rubies: one insert into ruby_entry; after the last one
\* the loop goes to the next line.
ScriptInsertRuby ==
    /\ bpc = "rubies"
    /\ b_db' = InsertRubyEntry(b_db, b_id, Head(b_rubies))
    /\ b_rubies' = Tail(b_rubies)
    /\ IF Tail(b_rubies) = <<>>
       THEN b_i' = b_i + 1 /\ bpc' = "loop"
       ELSE b_i' = b_i /\ bpc' = "rubies"
    /\ UNCHANGED <<b_committed, b_id, b_runs, dictVars, notBuild>>

\* db.execute_batch("commit") after the loop.
ScriptFinalCommit ==
    /\ bpc = "loop"
    /\ b_i = Len(lines)
    /\ b_committed' = b_db
    /\ bpc' = "done"
    /\ UNCHANGED <<b_db, b_i, b_id, b_rubies, b_runs, dictVars, notBuild>>

\* The run is cut short (or has panicked) and the script is run again: the
\* open transaction is rolled back, the file keeps what was committed.
ScriptInterrupt ==
    /\ bpc \in {"loop", "rubies", "panic"}
    /\ b_runs < MaxInterrupts
    /\ b_db' = b_committed
    /\ b_i' = 0
    /\ b_id' = 0
    /\ b_rubies' = <<>>
    /\ b_runs' = b_runs + 1
    /\ bpc' = "start"
    /\ UNCHANGED <<b_committed, dictVars, notBuild>>

BuildNext ==
    \/ ScriptStart
    \/ ScriptLine
    \/ ScriptLinePanic
    \/ ScriptInsertRuby
    \/ ScriptFinalCommit
    \/ ScriptInterrupt
    \/ BuildLine
    \/ BuildLineError
    \/ BuildFinish

SpecBuild == BuildInit /\ [][BuildNext]_vars

\* What dictionary_line returns for each raw line.
RECURSIVE ParsedFrom(_)
ParsedFrom(k) ==
    IF k > Len(lines) THEN <<>>
    ELSE <<dictionary_line(lines[k])>> \o ParsedFrom(k + 1)

\* The k-th raw line parses and has this text and reading.
LineHas(parsed, k, t, reading) ==
    /\ parsed[k].ok
    /\ parsed[k].val.text = t
    /\ parsed[k].val.reading = reading

\* The spans the table ruby_entry holds for an entry, in rowid order.
RubiesOf(store, id) ==
    Bind(SelectSeq(store.ruby_entry, LAMBDA r : r.text_entry_id = id), LAMBDA rows :
        [k \in 1..Len(rows) |->
            [start_index |-> rows[k].start_index,
             end_index |-> rows[k].end_index,
             text |-> rows[k].rt]])

\* Every entry of the store has all the spans of the first line with its
\* text and reading, once each and in the order of the line.
EntriesWhole(parsed, store) ==
    \A n \in 1..Len(store.text_entry) :
        \E e \in {store.text_entry[n]} :
            \E k \in 1..Len(parsed) :
                /\ LineHas(parsed, k, e.text, e.reading)
                /\ \A j \in 1..(k - 1) : ~LineHas(parsed, j, e.text, e.reading)
                /\ RubiesOf(store, e.id) = parsed[k].val.reading_spans

\* No two rows of text_entry have the same text and reading.
EntriesOnce(store) ==
    \A m, n \in 1..Len(store.text_entry) :
        (/\ store.text_entry[m].text = store.text_entry[n].text
         /\ store.text_entry[m].reading = store.text_entry[n].reading) => m = n

\* A line handled in full: the entry and, when it was inserted, its spans.
RECURSIVE InsertRubies(_, _, _)
InsertRubies(store, id, rubies) ==
    IF rubies = <<>> THEN store
    ELSE InsertRubies(InsertRubyEntry(store, id, Head(rubies)), id, Tail(rubies))

WholeLine(store, entry) ==
    Bind(InsertOrIgnoreEntry(store, entry.text, entry.reading), LAMBDA r :
        IF r.rows_affected > 0
        THEN InsertRubies(r.store, Len(r.store.text_entry), entry.reading_spans)
        ELSE r.store)

\* The tables one run that is never cut short leaves, from line k on.
RECURSIVE UninterruptedBuild(_, _, _)
UninterruptedBuild(parsed, store, k) ==
    IF k > Len(parsed) THEN store
    ELSE UninterruptedBuild(parsed, WholeLine(store, parsed[k].val), k + 1)

\* What the database file holds is whole, and when a run has completed it
\* is what one uninterrupted run on an empty file leaves.
CommittedSound ==
    \E parsed \in {ParsedFrom(1)} :
        /\ EntriesWhole(parsed, b_committed)
        /\ bpc = "done" =>
              /\ b_committed = UninterruptedBuild(parsed, EmptyStore, 1)
              /\ EntriesOnce(b_committed)
              /\ \A k \in 1..Len(parsed) :
                     HasEntry(b_committed, parsed[k].val.text, parsed[k].val.reading)

\* C25: the build script commits only at a line whose index is a non-zero
\* multiple of the batch size and at the end; what is committed always
\* holds each entry together with all of its spans; and when a run
\* completes, after any number of runs cut short at any statement and
\* started again from the first line on the same file, the file holds what
\* one uninterrupted run leaves: every (text, reading) of the lines once,
\* with the complete span list of its line and no span twice.
C25_InterruptedBuildConverges ==
    /\ []CommittedSound
    /\ [][b_committed' # b_committed => CommitDue(b_i) \/ bpc' = "done"]_vars

\* A second run, started after a run was cut short past a commit, has met
\* a line whose entry the file already holds and has left it alone.
C25_Witness ==
    /\ b_runs >= 1
    /\ bpc = "loop"
    /\ b_i >= 1
    /\ b_i < BatchSize
    /\ b_committed.ruby_entry # <<>>
    /\ b_db = b_committed

\* The span list is that of one line with this text and reading.
SpansOfOneLine(parsed, t, reading, spans) ==
    \E k \in 1..Len(parsed) :
        LineHas(parsed, k, t, reading) /\ parsed[k].val.reading_spans = spans

\* C29: after a build from lines that all parse, lines with the same text
\* and reading included, the in-memory index and the relational tables
\* each hold exactly one entry per distinct (text, reading) of the lines,
\* and the span list of that entry is the span list of one of the lines
\* with that pair.
C29_OneEntryPerPair ==
    (result.tag = "Ok" \/ bpc = "done") =>
    \E parsed \in {ParsedFrom(1)} :
    /\ result.tag = "Ok" =>
          /\ DOMAIN result.dict =
                 {[text |-> parsed[k].val.text, reading |-> parsed[k].val.reading] :
                      k \in 1..Len(parsed)}
          /\ \A key \in DOMAIN result.dict :
                 /\ result.dict[key].text = key.text
                 /\ result.dict[key].reading = key.reading
                 /\ SpansOfOneLine(parsed, key.text, key.reading,
                                   result.dict[key].reading_spans)
    /\ bpc = "done" =>
          /\ \A k \in 1..Len(parsed) :
                 Cardinality({n \in 1..Len(b_committed.text_entry) :
                     /\ b_committed.text_entry[n].text = parsed[k].val.text
                     /\ b_committed.text_entry[n].reading = parsed[k].val.reading}) = 1
          /\ \A n \in 1..Len(b_committed.text_entry) :
                 SpansOfOneLine(parsed, b_committed.text_entry[n].text,
                                b_committed.text_entry[n].reading,
                                RubiesOf(b_committed, b_committed.text_entry[n].id))

\* Both builds completed on lines of which two have the same text and
\* reading and different spans.
C29_Witness ==
    /\ result.tag = "Ok"
    /\ bpc = "done"
    /\ \E parsed \in {ParsedFrom(1)} :
         \E j, k \in 1..Len(parsed) :
           /\ j < k
           /\ parsed[j].val.text = parsed[k].val.text
           /\ parsed[j].val.reading = parsed[k].val.reading
           /\ parsed[j].val.reading_spans # parsed[k].val.reading_spans

(***************************************************************************)
(* Termination of the loop of annotate.  annotate runs on one thread and   *)
(* nothing it waits for is modelled, so a step that can be taken is taken. *)
(***************************************************************************)

\* annotate alone, on an input that is not blank.
SegmentInit == AnnotateInit /\ ~IsBlank(input_text) /\ ~avoid_common

SegmentNext ==
    \/ AnnotateTokenize
    \/ LoopExtend
    \/ LoopEmitSingle
    \/ LoopEmitMerged
    \/ AnnotateReturn("markdown")

SpecSegment == SegmentInit /\ [][SegmentNext]_vars /\ WF_vars(SegmentNext)

\* An iteration of the loop ran.
Iterated ==
    /\ AtIteration
    /\ <<token_buffer_start, token_buffer_end, internal_tokens>>' #
           <<token_buffer_start, token_buffer_end, internal_tokens>>

\* The iteration moved the end up, within the tokens, or the start up.
Progressed ==
    \/ /\ token_buffer_start' = token_buffer_start
       /\ token_buffer_end' > token_buffer_end
       /\ token_buffer_end' <= Len(tokens)
    \/ /\ token_buffer_start' > token_buffer_start
       /\ token_buffer_start' <= Len(tokens)

\* The loop was left with the start at the number of tokens.
LoopLeft == apc = "render" /\ token_buffer_start = Len(tokens)

\* C26: for every non-empty token sequence and every database, every
\* iteration of the loop either moves the end up, never past the number of
\* tokens, or moves the start up by at least one, and the loop, once
\* entered, is eventually left with the start equal to the number of tokens.
C26_LoopTerminates ==
    /\ [][Iterated => Progressed]_vars
    /\ (apc = "loop") ~> LoopLeft

\* The loop was left after an iteration that extended the window and one
\* that moved the start by two.
C26_Witness ==
    /\ LoopLeft
    /\ Len(tokens) = MaxTokens
    /\ \E i \in 1..Len(covered) : covered[i][2] = covered[i][1] + 2

(***************************************************************************)
(* The seen set of FirstOccurrence                                         *)
(***************************************************************************)

\* The set the selector of a thread points to.
SeenBy(t) == seen[SeenOf(t)]

\* C27: a surface text is in the seen set once the first call with it has
\* passed the insert, also when the inner selector returns none for that
\* call; and when the first call with a surface text returned none, every
\* later call with that text returns none, even when the inner selector
\* would choose a candidate of the later fragment.
C27_SeenEvenWhenNoneSelected ==
    /\ \A t \in Threads :
           tpc[t] \in {"delegate", "none", "return"} => tfrag[t].text \in SeenBy(t)
    /\ \A i \in 1..Len(callLog) :
           /\ callLog[i].fragment.text \in SeenBy(callLog[i].thread)
           /\ (FirstCallWithText(i) /\ ~callLog[i].ret.some) =>
                  \A j \in (i + 1)..Len(callLog) :
                      callLog[j].fragment.text = callLog[i].fragment.text
                          => callLog[j].ret = None

\* The first call with a text returned none because the inner selector
\* selected nothing, and a later call with the same text returned none
\* although the inner selector would have chosen a candidate.
C27_Witness ==
    \E i, j \in 1..Len(callLog) :
        /\ i < j
        /\ FirstCallWithText(i)
        /\ callLog[i].fragment.text = callLog[j].fragment.text
        /\ ~InnerSelect(selector, callLog[i].fragment).some
        /\ callLog[i].ret = None
        /\ InnerSelect(selector, callLog[j].fragment).some
        /\ callLog[j].ret = None

\* Among the completed calls, a call through one clone is followed by a
\* call with the same text through another clone only if the later call
\* returned none.
SuppressedAcrossClones ==
    \A i, j \in 1..Len(callLog) :
        (/\ i < j
         /\ callLog[i].thread # callLog[j].thread
         /\ callLog[i].fragment.text = callLog[j].fragment.text)
            => callLog[j].ret = None

\* C28: no step removes a text from a seen set, and the clones share one
\* set: a call with a surface text through one clone makes every later
\* call with that text through another clone return none.
C28_SeenGrowsAndIsShared ==
    /\ [][\A a \in DOMAIN seen : seen[a] \subseteq seen'[a]]_vars
    /\ []SuppressedAcrossClones

\* A text selected through the clone of one thread was suppressed in a
\* later call through the clone of the other, which the inner selector
\* would have answered with a candidate, and two texts are in the set.
C28_Witness ==
    /\ \E i, j \in 1..Len(callLog) :
           /\ i < j
           /\ callLog[i].thread # callLog[j].thread
           /\ callLog[i].fragment.text = callLog[j].fragment.text
           /\ callLog[i].ret.some
           /\ InnerSelect(selector, callLog[j].fragment).some
           /\ callLog[j].ret = None
    /\ \E t \in Threads : Cardinality(SeenBy(t)) >= 2

====
